---- MODULE Spec2Model ----
(***************************************************************************)
(* A model of the URL shortener's hot path: UrlService (ingestion, lookup, *)
(* deletion, hit accounting) over the primary store (table "urls") and the *)
(* Redis cache, and RedirectController.redirect with its side effects.     *)
(* Every await in the TypeScript source is a step boundary: the state      *)
(* between two awaits of one call is visible to every other call.          *)
(***************************************************************************)
EXTENDS Integers, Sequences, FiniteSets, TLC

(***************************************************************************)
(* Bounds of the model.                                                    *)
(***************************************************************************)
MaxOps == 3
MaxTime == 2
MaxFaults == 1
\* The lifetime of a cache entry (REDIS_TTL, in seconds), in clock ticks.
REDIS_TTL == 2
\* Clock ticks in 24 hours (maxAge) and in 5 minutes (maxFuture), and the
\* ticks a calendar day spans.
TicksPerDay == 2
maxAge == TicksPerDay
maxFuture == 1


(***************************************************************************)
(* Strings.  A URL is kept as the components of its text; the operators    *)
(* below do on the components what the WHATWG URL class does on the text.  *)
(***************************************************************************)
UpperChars == "ABCDEFGHIJKLMNOPQRSTUVWXYZ"
LowerChars == "abcdefghijklmnopqrstuvwxyz"
Digits == {"0", "1", "2", "3", "4", "5", "6", "7", "8", "9"}

CharAt(s, i) == SubSeq(s, i, i)

LowerChar(c) ==
  IF \E i \in 1..26 : CharAt(UpperChars, i) = c
  THEN CharAt(LowerChars, CHOOSE i \in 1..26 : CharAt(UpperChars, i) = c)
  ELSE c

RECURSIVE toLowerCase(_)
toLowerCase(s) ==
  IF Len(s) = 0 THEN ""
  ELSE LowerChar(CharAt(s, 1)) \o toLowerCase(SubSeq(s, 2, Len(s)))

endsWith(s, suffix) ==
  /\ Len(s) >= Len(suffix)
  /\ SubSeq(s, Len(s) - Len(suffix) + 1, Len(s)) = suffix

startsWith(s, prefix) ==
  /\ Len(s) >= Len(prefix)
  /\ SubSeq(s, 1, Len(prefix)) = prefix

Contains(s, c) == \E i \in 1..Len(s) : CharAt(s, i) = c

\* s.split(sep) for a one-character separator, as a sequence of strings.
RECURSIVE SplitAcc(_, _, _)
SplitAcc(s, sep, cur) ==
  IF Len(s) = 0 THEN <<cur>>
  ELSE IF CharAt(s, 1) = sep
       THEN <<cur>> \o SplitAcc(SubSeq(s, 2, Len(s)), sep, "")
       ELSE SplitAcc(SubSeq(s, 2, Len(s)), sep, cur \o CharAt(s, 1))

Split(s, sep) == SplitAcc(s, sep, "")

DigitValue(c) ==
  CASE c = "0" -> 0 [] c = "1" -> 1 [] c = "2" -> 2 [] c = "3" -> 3
    [] c = "4" -> 4 [] c = "5" -> 5 [] c = "6" -> 6 [] c = "7" -> 7
    [] c = "8" -> 8 [] c = "9" -> 9

\* Number(s) of a string of decimal digits.
RECURSIVE NumberOf(_)
NumberOf(s) ==
  IF Len(s) = 0 THEN 0
  ELSE 10 * NumberOf(SubSeq(s, 1, Len(s) - 1)) + DigitValue(CharAt(s, Len(s)))

AllDigits(s) == \A i \in 1..Len(s) : CharAt(s, i) \in Digits

(***************************************************************************)
(* URLs.  The text scheme://host[:port]path[?query] is the record of its   *)
(* components; query is the sequence of parameter names.  A text that has  *)
(* no scheme (scheme = "") is not a URL.                                   *)
(***************************************************************************)
Url(scheme, host, port, path, query) ==
  [scheme |-> scheme, host |-> host, port |-> port, path |-> path, query |-> query]

\* The default port of a special scheme ("" when the scheme has none).
DefaultPort(scheme) ==
  CASE scheme = "http" -> "80"
    [] scheme = "https" -> "443"
    [] scheme = "ftp" -> "21"
    [] OTHER -> ""

\* new URL(url) throws: no scheme, or a host with a colon that is not a
\* bracketed IPv6 literal, or an empty host.
CanParse(u) ==
  /\ u.scheme # ""
  /\ u.host # ""
  /\ (Contains(u.host, ":") => startsWith(u.host, "[") /\ endsWith(u.host, "]"))

\* new URL(url): protocol, hostname, port, pathname, searchParams.  The host
\* is lower-cased, a default port is dropped, an empty path becomes "/".
\* The hostname of an IPv6 literal keeps its brackets.
ParseUrl(u) ==
  [protocol |-> u.scheme \o ":",
   hostname |-> toLowerCase(u.host),
   port     |-> IF u.port = DefaultPort(u.scheme) THEN "" ELSE u.port,
   pathname |-> IF u.path = "" THEN "/" ELSE u.path,
   searchParams |-> u.query]

\* parsedUrl.toString(), as components again.
UrlToString(p) ==
  Url(SubSeq(p.protocol, 1, Len(p.protocol) - 1), p.hostname, p.port,
      p.pathname, p.searchParams)

trackingParams ==
  {"utm_source", "utm_medium", "utm_campaign", "utm_term", "utm_content",
   "gclid", "fbclid", "msclkid", "dclid", "source", "medium", "campaign"}

\* The deletion limited to the parameters whose name begins with utm_.
DeleteParams_UtmOnly(q, names) ==
  SelectSeq(q, LAMBDA n : n \notin names \/ ~startsWith(n, "utm_"))

\* searchParams.delete(param) for every tracking parameter.
DeleteParams(q, names) == SelectSeq(q, LAMBDA n : n \notin names)

normalizeUrl(u) ==
  IF ~CanParse(u) THEN u
  ELSE
    LET p0 == ParseUrl(u)
        p1 == [p0 EXCEPT !.searchParams = DeleteParams(@, trackingParams)]
        p2 == IF p1.protocol = "http:" /\ p1.port = "80"
              THEN [p1 EXCEPT !.port = ""] ELSE p1
        p3 == IF p2.protocol = "https:" /\ p2.port = "443"
              THEN [p2 EXCEPT !.port = ""] ELSE p2
        p4 == IF endsWith(p3.pathname, "/") /\ Len(p3.pathname) > 1
              THEN [p3 EXCEPT !.pathname = SubSeq(@, 1, Len(@) - 1)] ELSE p3
        p5 == [p4 EXCEPT !.hostname = toLowerCase(@)]
    IN  UrlToString(p5)

(***************************************************************************)
(* UrlEntity and the values the service works with.  An optional value is  *)
(* a set with at most one element; {} is null/undefined.                   *)
(***************************************************************************)
NoExpiry == -1
NoAlias == ""

defaultCodeLength == 7
customAliasMinLength == 3
customAliasMaxLength == 50
maxAttempts == 10
CodeColumnLength == 16

\* UrlEntity.isExpired() evaluated when the clock reads t.
isExpired(url, t) == IF url.expiresAt # NoExpiry THEN t > url.expiresAt ELSE FALSE

\* The row written by repository.create(...) + save(...).
NewEntity(code, dto, normalized, t) ==
  [code |-> code, original |-> dto.url, normalized |-> normalized,
   customAlias |-> dto.customAlias, expiresAt |-> dto.expiresAt,
   hitCount |-> 0, createdAt |-> t]

\* The partial entity getCachedUrl builds from a cache value.
CachedEntity(code, data) ==
  [code |-> code, original |-> data.original, expiresAt |-> data.expiresAt,
   hitCount |-> data.hitCount]

\* The body previewUrl builds from the entity findByCode returned, when the
\* clock reads t.  A property the entity does not have is undefined and
\* missing from the JSON body ({} here).  metadata, which the rows of the
\* model do not carry, is read from the entity in the same way as createdAt.
PreviewOf(url, t) ==
  [code |-> url.code, original |-> url.original,
   createdAt |-> IF "createdAt" \in DOMAIN url THEN {url.createdAt} ELSE {},
   expiresAt |-> url.expiresAt, hitCount |-> url.hitCount,
   isExpired |-> isExpired(url, t)]

(***************************************************************************)
(* RedirectController's pure helpers.                                      *)
(***************************************************************************)
isPrivateIp(hostname) ==
  LET parts == Split(hostname, ".")
      match == /\ Len(parts) = 4
               /\ \A i \in 1..4 : Len(parts[i]) \in 1..3 /\ AllDigits(parts[i])
  IN  IF ~match THEN FALSE
      ELSE LET a == NumberOf(parts[1])
               b == NumberOf(parts[2])
           IN  \/ a = 10
               \/ (a = 172 /\ b >= 16 /\ b <= 31)
               \/ (a = 192 /\ b = 168)
               \/ (a = 169 /\ b = 254)
               \/ a = 127

suspiciousTlds == {".tk", ".ml", ".ga", ".cf"}

isValidRedirectUrl(u) ==
  IF ~CanParse(u) THEN FALSE
  ELSE LET parsedUrl == ParseUrl(u)
           hostname == toLowerCase(parsedUrl.hostname)
       IN  /\ parsedUrl.protocol \in {"http:", "https:"}
           /\ ~(hostname = "localhost" \/ hostname = "127.0.0.1" \/ hostname = "::1")
           /\ ~isPrivateIp(hostname)
           /\ ~\E tld \in suspiciousTlds : endsWith(hostname, tld)

permanentDomains ==
  {"youtube.com", "youtu.be", "github.com", "gitlab.com", "twitter.com", "x.com",
   "facebook.com", "instagram.com", "linkedin.com", "medium.com", "stackoverflow.com"}

getRedirectType(u) ==
  IF ~CanParse(u) THEN "temporary"
  ELSE LET h0 == toLowerCase(ParseUrl(u).hostname)
           hostname == IF startsWith(h0, "www.") THEN SubSeq(h0, 5, Len(h0)) ELSE h0
       IN  IF hostname \in permanentDomains THEN "permanent" ELSE "temporary"

\* The code format test of the redirect and preview routes: /^[a-zA-Z0-9_-]+$/.
CodeChars == UpperChars \o LowerChars \o "0123456789_-"

ValidCodeFormat(code) ==
  /\ Len(code) > 0
  /\ \A i \in 1..Len(code) : Contains(CodeChars, CharAt(code, i))

(***************************************************************************)
(* Hit events: KafkaService's messages and AnalyticsConsumerService's and  *)
(* CassandraService's pure helpers.                                        *)
(***************************************************************************)
\* A timestamp missing from a message, and the Invalid Date that
\* new Date(undefined) makes of it.
NoStamp == -100
InvalidDate == -101

numPartitions == 3
Partitions == 0..(numPartitions - 1)

\* The JSON value of a message; a missing string field reads as "".
HitEvent(code, timestamp, ip, userAgent) ==
  [code |-> code, timestamp |-> timestamp, ip |-> ip, userAgent |-> userAgent,
   referrer |-> "", country |-> "", deviceType |-> "", browser |-> "", os |-> ""]

\* A message with the optional fields of HitEventDto.
Enriched(e, referrer, country, deviceType, browser, os) ==
  [e EXCEPT !.referrer = referrer, !.country = country, !.deviceType = deviceType,
            !.browser = browser, !.os = os]

\* The partition the producer's default partitioner gives the key (the
\* code): a function of the key alone.
PartitionOf(code) == Len(code) % numPartitions

\* parseHitEvent: the fields are copied, timestamp goes through new Date(...).
parseHitEvent(data) ==
  [data EXCEPT !.timestamp = IF @ = NoStamp THEN InvalidDate ELSE @]

HexChars == "0123456789abcdefABCDEF"

\* ipRegex: four groups of 1-3 digits, or eight groups of 1-4 hex digits.
ipRegexTest(ip) ==
  LET v4 == Split(ip, ".")
      v6 == Split(ip, ":")
  IN  \/ /\ Len(v4) = 4
         /\ \A i \in 1..4 : Len(v4[i]) \in 1..3 /\ AllDigits(v4[i])
      \/ /\ Len(v6) = 8
         /\ \A i \in 1..8 : /\ Len(v6[i]) \in 1..4
                             /\ \A j \in 1..Len(v6[i]) : Contains(HexChars, CharAt(v6[i], j))

\* isValidHitEvent at clock t.  An Invalid Date is an object (truthy) and its
\* getTime() is NaN, which compares false both ways.
isValidHitEvent(hitEvent, t) ==
  IF hitEvent.code = "" \/ hitEvent.timestamp = NoStamp \/ hitEvent.ip = ""
     \/ hitEvent.userAgent = ""
  THEN FALSE
  ELSE IF /\ hitEvent.timestamp # InvalidDate
          /\ (hitEvent.timestamp < t - maxAge \/ hitEvent.timestamp > t + maxFuture)
  THEN FALSE
  ELSE IF ~ipRegexTest(hitEvent.ip)
  THEN FALSE
  ELSE TRUE

\* recordHitEvent's date and hour of a timestamp.
DateOf(timestamp) == timestamp \div TicksPerDay
HourOf(timestamp) == timestamp % TicksPerDay

\* recordHitEvent's minute of a timestamp: a tick is a whole number of hours.
MinuteOf(timestamp) == (timestamp * 60) % 60

\* value || 'unknown'
OrUnknown(value) == IF value = "" THEN "unknown" ELSE value

\* createVisitorHash: a digest of "<ip>:<userAgent>", kept as its preimage.
createVisitorHash(ip, userAgent) == ip \o ":" \o userAgent

(***************************************************************************)
(* ApiKeyGuard, on DELETE /urls/:code and POST /urls/batch.  The header's  *)
(* value is a string; "" is a request without the header.                  *)
(***************************************************************************)
\* The configured ADMIN_API_KEY, and header values that differ from it.
adminApiKey == "s3cret-Admin"
WrongKey == "s3cret-admin"
KeyPrefix == "s3cret"

AdminRoutes == {"batch", "delete"}

\* What canActivate throws ({} when it returns true).
Unauthorized(message) ==
  {[kind |-> "throw", error |-> "UnauthorizedException", status |-> 401,
    message |-> message]}

\* The comparison done on the length of the provided key only.
canActivate_PrefixMatch(providedApiKey) ==
  IF providedApiKey = "" THEN Unauthorized("API key is required")
  ELSE IF providedApiKey # SubSeq(adminApiKey, 1, Len(providedApiKey))
  THEN Unauthorized("Invalid API key")
  ELSE {}

canActivate(providedApiKey) ==
  IF providedApiKey = "" THEN Unauthorized("API key is required")
  ELSE IF providedApiKey # adminApiKey THEN Unauthorized("Invalid API key")
  ELSE {}

(***************************************************************************)
(* VirusTotalService.  A scan is what the two requests of checkUrl come    *)
(* back with: the stats of the analysis, or a failure of a request.        *)
(***************************************************************************)
Stats(malicious, suspicious, harmless, undetected) ==
  [malicious |-> malicious, suspicious |-> suspicious, harmless |-> harmless,
   undetected |-> undetected]

Analysed(stats) == [failed |-> FALSE, stats |-> stats]
ScanFailed == [failed |-> TRUE, stats |-> Stats(0, 0, 0, 0)]

\* isUnsafe: more than 2 engines flag the URL, or more than 10% of them.
isUnsafe(stats) ==
  LET totalScans == stats.malicious + stats.suspicious + stats.harmless + stats.undetected
      unsafeCount == stats.malicious + stats.suspicious
  IN  unsafeCount > 2 \/ (totalScans > 0 /\ unsafeCount * 10 > totalScans)

evaluateResult(stats) == ~isUnsafe(stats)

\* The error of a request is caught and the URL is let through.
checkUrl_FailClosed(scan) == IF scan.failed THEN FALSE ELSE evaluateResult(scan.stats)

\* checkUrl: a failing request is caught and the URL is allowed.
checkUrl(scan) == IF scan.failed THEN TRUE ELSE evaluateResult(scan.stats)

(***************************************************************************)
(* Inputs.  Clients draw the arguments of their calls from a pool that the *)
(* initial state fixes for the whole run.                                  *)
(***************************************************************************)
Clients == {"c1", "c2"}

UrlA == Url("https", "Example.COM", "", "/path", <<"utm_source", "a">>)
UrlB == Url("https", "example.com", "", "/path/", <<"a", "utm_medium">>)
UrlC == Url("https", "www.GitHub.com", "443", "/", <<>>)
UrlLoopback4 == Url("http", "127.0.0.1", "", "/x", <<>>)
UrlLoopback6 == Url("http", "[::1]", "", "/x", <<>>)
UrlFtp == Url("ftp", "example.com", "", "", <<>>)
UrlPrivate == Url("http", "172.31.0.9", "8080", "/", <<>>)
UrlTk == Url("https", "Free.TK", "", "/", <<>>)

ShortCode == "aB3_x-9"
LongCode == "aB3_x-9Qr"

\* A scenario: the clients that call, the inputs they draw from, the
\* operations they call, the clock's last tick, the dependency failures that
\* may happen, and the URLs shortened before the run starts.
Scenario(clients, urls, aliases, exps, codes, ops, ticks, faults, seed) ==
  [clients |-> clients, urls |-> urls, aliases |-> aliases, exps |-> exps,
   codes |-> codes, gen |-> {ShortCode, LongCode}, ops |-> ops, ticks |-> ticks,
   faults |-> faults, seed |-> seed, vias |-> {"service"}, events |-> {},
   consumer |-> FALSE, scans |-> {}, keys |-> {adminApiKey}, bodies |-> {},
   shutdown |-> FALSE, compaction |-> FALSE]

\* A URL shortened before the run starts, with its expiry.
Seed(u, e) == [url |-> u, expiresAt |-> e]

DedupScenario ==
  Scenario(Clients, {UrlA, UrlB}, {NoAlias}, {NoExpiry}, {}, {"createShortUrl"}, 0, 0, {})
AliasScenario ==
  Scenario(Clients, {UrlA, UrlC}, {NoAlias, "my-link", "ab"}, {NoExpiry}, {},
           {"createShortUrl"}, 0, 0, {})
ReshortenScenario ==
  Scenario(Clients, {UrlC}, {NoAlias}, {1}, {}, {"createShortUrl"}, MaxTime, 0, {})
ExpiryScenario ==
  Scenario({"c1"}, {}, {}, {}, {ShortCode}, {"redirect"}, MaxTime, 0, {Seed(UrlC, 1)})
GuardScenarios ==
  {Scenario({"c1"}, {u}, {NoAlias}, {NoExpiry}, {ShortCode, "a!b"},
            {"createShortUrl", "redirect"}, 0, 0, {}) :
     u \in {UrlLoopback4, UrlLoopback6, UrlFtp, UrlPrivate, UrlTk}}
FaultScenario ==
  Scenario({"c1"}, {UrlA}, {NoAlias}, {NoExpiry}, {ShortCode},
           {"createShortUrl", "redirect", "findByCode"}, 0, MaxFaults, {})
LookupScenario ==
  Scenario({"c1"}, {}, {}, {}, {ShortCode}, {"findByCode"}, MaxTime, MaxFaults,
           {Seed(UrlC, NoExpiry)})
DeleteScenario ==
  Scenario(Clients, {UrlA}, {NoAlias}, {NoExpiry}, {ShortCode},
           {"createShortUrl", "findByCode", "deleteUrl", "incrementHitCount", "redirect"},
           0, 0, {Seed(UrlA, NoExpiry)})

\* URL scanning is enabled (ENABLE_URL_SCANNING with an API key) and the
\* analysis reports a clean URL, one flagged by 3 engines of 70, one flagged
\* by 1 engine of 6, or fails.
ScanScenario ==
  [Scenario({"c1"}, {UrlA, UrlTk}, {NoAlias}, {NoExpiry}, {}, {"createShortUrl"}, 0, 0, {})
     EXCEPT !.scans = {Analysed(Stats(0, 0, 9, 1)), Analysed(Stats(2, 1, 60, 7)),
                       Analysed(Stats(1, 0, 5, 0)), ScanFailed}]

\* URLs for normalizeUrl: a path ending in two slashes with a default port,
\* a mixed-case host and tracking parameters; two URLs that differ only in
\* their tracking parameters; the root path with a default port.
UrlSlashes == Url("https", "Example.COM", "443", "/path//", <<"utm_source", "b", "a", "gclid">>)
UrlT1 == Url("https", "example.com", "", "/p", <<"utm_source", "a", "b">>)
UrlT2 == Url("https", "example.com", "", "/p", <<"a", "gclid", "b", "source", "gclid">>)
UrlRoot == Url("http", "example.com", "80", "/", <<"fbclid">>)

NormalizeScenario ==
  Scenario({"c1"}, {UrlSlashes, UrlT1, UrlT2, UrlRoot}, {NoAlias}, {NoExpiry}, {},
           {"normalizeUrl", "createShortUrl"}, 0, 0, {})

\* Records without expiry, expiring now and expiring later are created
\* through the service, and the statistics are read while the clock runs.
StatsScenario ==
  Scenario({"c1"}, {UrlA, UrlC}, {NoAlias}, {NoExpiry, 0, MaxTime}, {},
           {"createShortUrl", "getUrlStats"}, MaxTime, MaxFaults, {})

\* The body of POST /urls/batch: its urls array as a set ({} when the body
\* has no urls array) of one sequence of entries.
MaxBatch == 100
Entry(u, a) == [url |-> u, customAlias |-> a, expiresAt |-> NoExpiry]
NoUrls == {}
Body(urls) == {urls}

\* Batches without an array, without entries and with too many entries, of
\* one entry, of two entries that normalize alike, of two that do not, and
\* of an entry that fails before one that does not.
BatchScenario ==
  [Scenario(Clients, {UrlA, UrlB, UrlC}, {NoAlias, "ab"}, {NoExpiry}, {},
            {"batchCreateUrls"}, 0, 0, {})
     EXCEPT !.vias = {"batch"}, !.keys = {adminApiKey, ""},
            !.bodies = {NoUrls, Body(<<>>),
                        Body([i \in 1..(MaxBatch + 1) |-> Entry(UrlA, NoAlias)]),
                        Body(<<Entry(UrlC, NoAlias)>>),
                        Body(<<Entry(UrlA, NoAlias), Entry(UrlB, NoAlias)>>),
                        Body(<<Entry(UrlA, NoAlias), Entry(UrlC, NoAlias)>>),
                        Body(<<Entry(UrlC, "ab"), Entry(UrlA, NoAlias)>>)}]

\* Requests to the admin routes with the configured key, without a key and
\* with keys that differ from it.
AdminScenario ==
  [Scenario({"c1"}, {UrlA}, {NoAlias}, {NoExpiry}, {ShortCode, "ab"},
            {"createShortUrl", "deleteUrl"}, 0, 0, {Seed(UrlC, NoExpiry)})
     EXCEPT !.vias = AdminRoutes, !.keys = {"", adminApiKey, WrongKey, KeyPrefix}]

\* A cached code keeps being hit while the clock runs past the cache TTL.
StaleScenario ==
  Scenario({"c1"}, {}, {}, {}, {ShortCode}, {"incrementHitCount", "findByCode"},
           REDIS_TTL + 1, 0, {Seed(UrlC, NoExpiry)})

\* Aliases as a request body may carry them: upper case, longer than the
\* code column, outside the alias charset.
MixedAlias == "Ab_1"
LongAlias == "my-very-long-link"
BadAlias == "a b"

\* Requests arriving by POST /urls and by POST /urls/batch.
EntryScenario ==
  [Scenario({"c1"}, {UrlA, UrlC}, {MixedAlias, LongAlias, BadAlias}, {NoExpiry, 0}, {},
            {"createShortUrl"}, 0, 0, {})
     EXCEPT !.vias = {"post", "batch"}]

\* The address and user agent of requests, and other values a message on
\* the topic may carry.
RequestIp == "203.0.113.7"
RequestAgent == "Mozilla/5.0"
OtherIp == "198.51.100.4"
LoopbackIp == "::1"

\* The analytics consumer runs while producers publish hit events for two
\* codes, some of them twice, and the analytics store may fail.
ConsumerScenario ==
  [Scenario({"c1"}, {}, {}, {}, {}, {"publishHitEvent"}, 0, MaxFaults, {})
     EXCEPT !.consumer = TRUE,
            !.events = {HitEvent(ShortCode, 1, RequestIp, RequestAgent),
                        HitEvent(ShortCode, 0, RequestIp, RequestAgent),
                        HitEvent(ShortCode, 0, OtherIp, RequestAgent),
                        HitEvent(LongCode, 0, RequestIp, RequestAgent)}]

\* A record whose target fails the open-redirect guard expires at time 0 and
\* is requested at its expiry and after it.
ExpiredTargetScenario ==
  Scenario({"c1"}, {}, {}, {}, {ShortCode}, {"redirect"}, 1, 0, {Seed(UrlPrivate, 0)})

\* Events of one code are published while the consumer lags and the log
\* cleaner runs.
CompactionScenario ==
  [Scenario({"c1"}, {}, {}, {}, {}, {"publishHitEvent"}, 1, 0, {})
     EXCEPT !.consumer = TRUE, !.compaction = TRUE,
            !.events = {HitEvent(ShortCode, 0, RequestIp, RequestAgent),
                        HitEvent(ShortCode, 0, OtherIp, RequestAgent),
                        HitEvent(LongCode, 0, RequestIp, RequestAgent)}]

\* Every code of the configured length that nanoid returns is taken, so that
\* generateUniqueCode falls back to the longer token, more than once.
FallbackScenario ==
  Scenario({"c1"}, {UrlA, UrlTk}, {NoAlias}, {NoExpiry}, {}, {"createShortUrl"}, 0, 0,
           {Seed(UrlC, NoExpiry)})

\* The process that runs the consumer is shut down, by a signal or by
\* app.close(), while events are published and consumed.
ShutdownScenario ==
  [Scenario({"c1"}, {}, {}, {}, {}, {"publishHitEvent"}, 0, 0, {})
     EXCEPT !.consumer = TRUE, !.shutdown = TRUE,
            !.events = {HitEvent(ShortCode, 0, RequestIp, RequestAgent),
                        HitEvent(LongCode, 0, OtherIp, RequestAgent)}]

\* The consumer receives messages with fields missing, with an address in
\* compressed IPv6 notation, and with timestamps around the tolerance
\* window, while the clock advances.
MalformedScenario ==
  [Scenario({"c1"}, {}, {}, {}, {}, {"publishHitEvent"}, 0, 0, {})
     EXCEPT !.consumer = TRUE,
            !.events = {HitEvent("", 0, RequestIp, RequestAgent),
                        HitEvent(ShortCode, NoStamp, RequestIp, RequestAgent),
                        HitEvent(ShortCode, 0, "", RequestAgent),
                        HitEvent(ShortCode, 0, RequestIp, ""),
                        HitEvent(ShortCode, 0, LoopbackIp, RequestAgent)}]
\* The consumer receives events with all, some and none of the optional
\* fields.
EnrichedScenario ==
  [Scenario({"c1"}, {}, {}, {}, {}, {"publishHitEvent"}, 0, 0, {})
     EXCEPT !.consumer = TRUE,
            !.events = {Enriched(HitEvent(ShortCode, 0, RequestIp, RequestAgent),
                                 "https://news.example", "DE", "mobile", "", "iOS"),
                        Enriched(HitEvent(ShortCode, 1, RequestIp, RequestAgent),
                                 "direct", "", "unknown", "unknown", "unknown"),
                        HitEvent(ShortCode, 1, OtherIp, RequestAgent)}]
WindowScenario ==
  [Scenario({"c1"}, {}, {}, {}, {}, {"publishHitEvent"}, MaxTime, 0, {})
     EXCEPT !.consumer = TRUE,
            !.events = {HitEvent(ShortCode, 0 - maxAge, RequestIp, RequestAgent),
                        HitEvent(ShortCode, MaxTime + maxFuture, RequestIp, RequestAgent)}]

\* One visitor hits a code at two hours of a day and another visitor once,
\* and the analytics of the code are read.
AnalyticsScenario ==
  [Scenario({"c1"}, {}, {}, {}, {ShortCode}, {"publishHitEvent", "getAnalytics"}, 0, 0, {})
     EXCEPT !.consumer = TRUE,
            !.events = {HitEvent(ShortCode, 0, RequestIp, RequestAgent),
                        HitEvent(ShortCode, 1, RequestIp, RequestAgent),
                        HitEvent(ShortCode, 0, OtherIp, RequestAgent)}]

\* A custom alias is created, hit and deleted, and created again for
\* another URL, by two clients at once.
RecreateScenario ==
  Scenario(Clients, {UrlA, UrlC}, {"my-link"}, {NoExpiry}, {"my-link"},
           {"createShortUrl", "deleteUrl", "incrementHitCount"}, 0, 0, {})

\* A record is previewed while it is cached and after its cache entry has
\* expired, and is hit in between.
PreviewScenario ==
  Scenario({"c1"}, {}, {}, {}, {ShortCode, LongCode, "a!b"}, {"preview", "incrementHitCount"},
           REDIS_TTL, 0, {Seed(UrlC, 1)})

Pools ==
  {DedupScenario, AliasScenario, ReshortenScenario, ExpiryScenario, FaultScenario,
   LookupScenario, DeleteScenario, EntryScenario, ConsumerScenario, MalformedScenario,
   WindowScenario, EnrichedScenario, StaleScenario, ScanScenario, NormalizeScenario,
   StatsScenario, AdminScenario, BatchScenario, ShutdownScenario,
   FallbackScenario, ExpiredTargetScenario, CompactionScenario, AnalyticsScenario,
   RecreateScenario, PreviewScenario}
  \cup GuardScenarios

\* What nanoid(n) may return.
nanoid(gen, n) == {c \in gen : Len(c) = n}

\* Every URL a client may submit, and the pure functions of the service
\* tabulated over them.
InputUrls == UNION {p.urls : p \in Pools}
normalizedOf == [u \in InputUrls |-> normalizeUrl(u)]
validRedirectOf == [u \in InputUrls |-> isValidRedirectUrl(u)]
redirectTypeOf == [u \in InputUrls |-> getRedirectType(u)]

(***************************************************************************)
(* CreateUrlDto under the global ValidationPipe (transform: true): the     *)
(* @Transform functions run first, then the validators.                    *)
(***************************************************************************)
RECURSIVE trimStart(_)
trimStart(s) ==
  IF s # "" /\ CharAt(s, 1) = " " THEN trimStart(SubSeq(s, 2, Len(s))) ELSE s

RECURSIVE trimEnd(_)
trimEnd(s) ==
  IF s # "" /\ CharAt(s, Len(s)) = " " THEN trimEnd(SubSeq(s, 1, Len(s) - 1)) ELSE s

trim(s) == trimEnd(trimStart(s))

\* @Transform of customAlias: value?.trim().toLowerCase()
TransformAlias(a) == IF a = NoAlias THEN NoAlias ELSE toLowerCase(trim(a))

\* @Length(3, 50) and @Matches(/^[a-zA-Z0-9_-]+$/) of customAlias, skipped
\* by @IsOptional when the alias is absent.
AliasValid(a) ==
  \/ a = NoAlias
  \/ /\ Len(a) >= 3
     /\ Len(a) <= 50
     /\ \A i \in 1..Len(a) : Contains(CodeChars, CharAt(a, i))

\* @IsUrl with protocols http and https, require_protocol.
IsUrl(u) == u.scheme \in {"http", "https"} /\ CanParse(u)

InputAliases == UNION {p.aliases : p \in Pools}
transformedAliasOf == [a \in InputAliases |-> TransformAlias(a)]
aliasValidOf == [a \in InputAliases |-> AliasValid(TransformAlias(a))]
isUrlOf == [u \in InputUrls |-> IsUrl(u)]

(***************************************************************************)
(* State.                                                                  *)
(***************************************************************************)
VARIABLES
  now,        \* the clock (Date.now()), in ticks
  store,      \* the rows of table "urls"
  cache,      \* the Redis keys url:<code>, each with its value and expiry
  fetchedAt,  \* per Redis key: when its value was read from the primary store
  bus,        \* the hit events acknowledged by Kafka, in order
  pool,       \* the inputs clients may submit
  opsLeft,    \* calls that may still be started
  faultsLeft, \* dependency failures that may still happen
  pc,         \* per task: the await it is suspended at
  op,         \* per task: the top-level operation it runs
  arg,        \* per task: the arguments of that operation
  loc,        \* per task: the local variables of that operation
  last,       \* the call that ended last: its operation, arguments and outcome
  deleted,    \* codes for which deleteUrl returned true and that were not created again
  offsets,    \* per partition: the messages the consumer group has acknowledged
  inflight,   \* the message eachMessage is processing, if any
  handled,    \* the messages eachMessage is done with, in order, with their outcome
  hitsByHour, \* the rows of table hits_by_hour
  accessTimes,    \* the rows of table access_times
  uniqueVisitors, \* the rows of table unique_visitors
  hitsByMinute,   \* the rows of table hits_by_minute
  referrers,      \* the rows of table referrers
  geographic,     \* the rows of table geographic
  devices,        \* the rows of table devices
  consumerState,  \* the consumer instance: "Running", "Draining" or "Stopped"
  compacted       \* the positions of bus whose message the log cleaner has removed

consumerVars ==
  <<offsets, inflight, handled, hitsByHour, accessTimes, uniqueVisitors, hitsByMinute,
    referrers, geographic, devices, consumerState, compacted>>

vars ==
  <<now, store, cache, fetchedAt, bus, pool, opsLeft, faultsLeft, pc, op, arg, loc, last,
    deleted, offsets, inflight, handled, hitsByHour, accessTimes, uniqueVisitors, hitsByMinute,
    referrers, geographic, devices, consumerState, compacted>>

\* Every client has one background task: the promise of the un-awaited
\* incrementHitCount that its redirect leaves behind.
BgOf(c) == "bg_" \o c
Tasks == Clients \cup {BgOf(c) : c \in Clients}

NoArg ==
  [url |-> {}, customAlias |-> NoAlias, expiresAt |-> NoExpiry, code |-> "", via |-> "",
   event |-> {}, key |-> "", urls |-> {}, entry |-> 0]

\* Locals of a call.  url is the entity in hand; the remaining fields record
\* what the call went through and are read only by the properties.
NoLoc ==
  [normalized |-> {}, code |-> "", attempt |-> 0, url |-> {},
   faults |-> {}, peers |-> {}, rivals |-> {}, fresh |-> FALSE, aliasFree |-> FALSE,
   afterDelete |-> FALSE, cacheHeld |-> FALSE, storeHeld |-> FALSE,
   readStore |-> FALSE, wroteCache |-> FALSE, checkedAt |-> {}, asOf |-> {}, scan |-> {},
   res |-> {}]
NoRes ==
  [kind |-> "none", error |-> "", message |-> "", status |-> 0,
   code |-> "", isNew |-> FALSE, value |-> {}, location |-> {},
   success |-> <<>>, errors |-> <<>>]

Returned(value) == [NoRes EXCEPT !.kind = "return", !.value = value]
Thrown(error, status, message) ==
  [NoRes EXCEPT !.kind = "throw", !.error = error, !.status = status, !.message = message]
Responded(status, location) ==
  [NoRes EXCEPT !.kind = "response", !.status = status, !.location = location]
Created(url, isNew) ==
  [NoRes EXCEPT !.kind = "return", !.code = url.code, !.isNew = isNew, !.value = {url}]

NoCall == [task |-> "", op |-> "none", arg |-> NoArg, loc |-> NoLoc, res |-> NoRes]

Idle(t) == pc[t] = "idle"

\* batchCreateUrls catches what createShortUrl throws for one of its URLs
\* and reports it in the errors array of its response; what the guard
\* throws never reaches the handler, and what the handler throws for the
\* body as a whole is outside that try/catch.
Settle(a, r) ==
  IF a.via = "batch" /\ a.url # {} /\ r.kind = "throw" /\ r.error # "UnauthorizedException"
  THEN [r EXCEPT !.kind = "return", !.status = 0] ELSE r

\* Task t's call o(a) ends with outcome r: its frame is dropped.  The
\* promise of an entry of a running batch keeps the outcome and waits,
\* settled, for the other entries.
EndCall(t, o, a, l, r) ==
  /\ last' = [task |-> t, op |-> o, arg |-> a,
              loc |-> [l EXCEPT !.code = "", !.attempt = 0, !.normalized = {}],
              res |-> Settle(a, r)]
  /\ IF a.entry # 0
     THEN /\ pc' = [pc EXCEPT ![t] = "settled"]
          /\ loc' = [loc EXCEPT ![t] = [NoLoc EXCEPT !.res = {Settle(a, r)}]]
          /\ UNCHANGED <<op, arg>>
     ELSE /\ pc' = [pc EXCEPT ![t] = "idle"]
          /\ op' = [op EXCEPT ![t] = "none"]
          /\ arg' = [arg EXCEPT ![t] = NoArg]
          /\ loc' = [loc EXCEPT ![t] = NoLoc]

End(t, l, r) == EndCall(t, op[t], arg[t], l, r)

\* A client issues its calls one after the other.  The clients are
\* interchangeable: the first call of a run is c1's.
MayCall(c, o) ==
  /\ c \in pool.clients
  /\ Idle(c)
  /\ opsLeft > 0
  /\ o \in pool.ops
  /\ (opsLeft = MaxOps => c = "c1")

\* Whether a dependency call made now fails.
FaultChoices == IF faultsLeft > 0 THEN {FALSE, TRUE} ELSE {FALSE}
Spend(f) == IF f THEN faultsLeft - 1 ELSE faultsLeft
Noted(l, f, name) == IF f THEN [l EXCEPT !.faults = @ \cup {name}] ELSE l

The(S) == CHOOSE x \in S : TRUE

(***************************************************************************)
(* The store (TypeORM repository over table "urls") and the cache (Redis). *)
(***************************************************************************)
FindOneByCode(code) == {r \in store : r.code = code}
\* The lookup keyed by the URL as submitted instead of its normalized form.
FindOneByNormalized_ByOriginal(n) == {r \in store : r.original = n}

FindOneByNormalized(n) == {r \in store : r.normalized = n}

\* The INSERT with the unique index on normalized missing.
InsertViolation_CodeOnly(rec) ==
  \/ \E r \in store : r.code = rec.code
  \/ Len(rec.code) > CodeColumnLength

\* INSERT violates a unique index (code, normalized) or the column length.
InsertViolation(rec) ==
  \/ \E r \in store : r.code = rec.code
  \/ \E r \in store : r.normalized = rec.normalized
  \/ Len(rec.code) > CodeColumnLength

\* The increment as an upsert: a code without a row gets one.
IncrementRows_Upsert(code) ==
  IF \E r \in store : r.code = code
  THEN {IF r.code = code THEN [r EXCEPT !.hitCount = @ + 1] ELSE r : r \in store}
  ELSE store \cup {[code |-> code, original |-> {}, normalized |-> {},
                    customAlias |-> NoAlias, expiresAt |-> NoExpiry,
                    hitCount |-> 1, createdAt |-> now]}

\* The increment as a write of a count computed from a read taken when the
\* record was created.
IncrementRows_FromStaleRead(code) ==
  {IF r.code = code THEN [r EXCEPT !.hitCount = 1] ELSE r : r \in store}

\* repository.increment({code}, 'hitCount', 1)
IncrementRows(code) ==
  {IF r.code = code THEN [r EXCEPT !.hitCount = @ + 1] ELSE r : r \in store}

\* redisService.get: the value of a key that has not expired.
CacheGet(code) == {e \in cache : e.key = code /\ now < e.expireAt}

\* SETEX url:<code> REDIS_TTL {original, expiresAt, hitCount}
CacheSetex(url) ==
  {e \in cache : e.key # url.code} \cup
  {[key |-> url.code, expireAt |-> now + REDIS_TTL,
    value |-> [original |-> url.original, expiresAt |-> url.expiresAt,
               hitCount |-> url.hitCount]]}

CacheDel(code) == {e \in cache : e.key # code}

\* cacheUrl(url): a failing SETEX is caught and logged.
cacheUrl(url, fails) == IF fails THEN cache ELSE CacheSetex(url)

\* removeCachedUrl(code): a failing DEL is caught and logged.
removeCachedUrl(code, fails) == IF fails THEN cache ELSE CacheDel(code)

\* getCachedUrl(code): a failing GET reads as a miss.
getCachedUrl(code, fails) ==
  IF fails THEN {} ELSE {CachedEntity(code, e.value) : e \in CacheGet(code)}

\* When the value cached for a code was read from the primary store, and
\* the history after a SETEX of a value read at asOf, and after a DEL.
FetchedAtOf(code) == {r.at : r \in {q \in fetchedAt : q.key = code}}
Fetched(code, asOf, fails) ==
  IF fails THEN fetchedAt
  ELSE {r \in fetchedAt : r.key # code} \cup {[key |-> code, at |-> t] : t \in asOf}
Forgotten(code, fails) ==
  IF fails THEN fetchedAt ELSE {r \in fetchedAt : r.key # code}

\* The row and the cache entry of a URL shortened at time 0.
SeedEntity(sd) ==
  NewEntity(ShortCode, [NoArg EXCEPT !.url = sd.url, !.expiresAt = sd.expiresAt],
            normalizedOf[sd.url], 0)
SeedEntry(sd) ==
  [key |-> ShortCode, expireAt |-> REDIS_TTL,
   value |-> [original |-> sd.url, expiresAt |-> sd.expiresAt, hitCount |-> 0]]

Init ==
  /\ now = 0
  /\ pool \in Pools
  /\ store = {SeedEntity(sd) : sd \in pool.seed}
  /\ cache = {SeedEntry(sd) : sd \in pool.seed}
  /\ fetchedAt = {[key |-> ShortCode, at |-> 0] : sd \in pool.seed}
  /\ bus = <<>>
  /\ opsLeft = MaxOps
  /\ faultsLeft = pool.faults
  /\ pc = [t \in Tasks |-> "idle"]
  /\ op = [t \in Tasks |-> "none"]
  /\ arg = [t \in Tasks |-> NoArg]
  /\ loc = [t \in Tasks |-> NoLoc]
  /\ last = NoCall
  /\ deleted = {}
  /\ offsets = [p \in Partitions |-> 0]
  /\ inflight = {}
  /\ handled = <<>>
  /\ hitsByHour = {}
  /\ accessTimes = {}
  /\ uniqueVisitors = {}
  /\ hitsByMinute = {}
  /\ referrers = {}
  /\ geographic = {}
  /\ devices = {}
  /\ consumerState = IF pool.consumer THEN "Running" ELSE "Stopped"
  /\ compacted = {}

(***************************************************************************)
(* UrlService.createShortUrl                                               *)
(***************************************************************************)
\* What the ValidationPipe answers to POST /urls for a body it does not let
\* through ({} when it lets the body through): an Error thrown by the
\* @Transform of expiresAt leaves plainToInstance as it is, a failed validator
\* gives a BadRequestException.
ValidationPipe(u, a, e, t) ==
  IF e # NoExpiry /\ e <= t
  THEN {Thrown("Error", 500, "Expiration date must be in the future")}
  ELSE IF ~isUrlOf[u]
  THEN {Thrown("BadRequestException", 400, "URL must be a valid HTTP or HTTPS URL")}
  ELSE IF ~aliasValidOf[a]
  THEN {Thrown("BadRequestException", 400, "Custom alias")}
  ELSE {}

\* normalizeUrl is applied to a submitted URL or to what it returned last.
CallNormalizeUrl(c) ==
  /\ MayCall(c, "normalizeUrl")
  /\ \E u \in pool.urls \cup (IF last.op = "normalizeUrl" THEN last.res.value ELSE {}) :
       EndCall(c, "normalizeUrl", [NoArg EXCEPT !.url = {u}], NoLoc,
               Returned({normalizeUrl(u)}))
  /\ opsLeft' = opsLeft - 1
  /\ UNCHANGED <<now, store, cache, fetchedAt, bus, pool, consumerVars, faultsLeft, deleted>>

\* A request arrives by one of the entry paths and, unless the pipe of
\* POST /urls rejects it, createShortUrl runs up to its first await:
\* normalizeUrl, then checkUrlSafety if scanning is enabled, else
\* findByNormalizedUrl.  The batch route's body
\* is typed inline and passes the pipe as it is.
CallCreateShortUrl(c) ==
  /\ MayCall(c, "createShortUrl")
  /\ \E u \in pool.urls, a0 \in pool.aliases, e \in pool.exps,
        via \in pool.vias \ {"delete"}, key \in pool.keys :
       LET denied == IF via = "batch" THEN canActivate(key) ELSE {}
           rejected == IF via = "post" THEN ValidationPipe(u, a0, e, now)
                       ELSE {[NoRes EXCEPT !.kind = d.kind, !.error = d.error,
                                           !.status = d.status, !.message = d.message] :
                               d \in denied}
           a == IF via = "post" /\ rejected = {} THEN transformedAliasOf[a0] ELSE a0
           dto == [NoArg EXCEPT !.url = {u}, !.customAlias = a, !.expiresAt = e, !.via = via,
                                !.key = IF via = "batch" THEN key ELSE ""]
           n == normalizedOf[u]
           creating == {s \in Tasks \ {c} : op[s] = "createShortUrl" /\ pc[s] # "settled"}
           peers == {s \in creating : loc[s].normalized = {n}}
           rivals == {s \in creating \ peers : a # NoAlias /\ arg[s].customAlias = a}
       IN
       IF rejected # {}
       THEN EndCall(c, "createShortUrl", dto, NoLoc, The(rejected))
       ELSE
       /\ arg' = [arg EXCEPT ![c] = dto]
       /\ loc' = [s \in Tasks |->
            IF s = c
            THEN [NoLoc EXCEPT !.normalized = {n}, !.peers = peers, !.rivals = rivals,
                               !.fresh = \/ FindOneByNormalized(n) = {}
                                         \/ \E q \in peers : loc[q].fresh,
                               !.aliasFree = (FindOneByCode(a) = {})]
            ELSE IF s \in peers THEN [loc[s] EXCEPT !.peers = @ \cup {c}]
            ELSE IF s \in rivals THEN [loc[s] EXCEPT !.rivals = @ \cup {c}]
            ELSE loc[s]]
       /\ op' = [op EXCEPT ![c] = "createShortUrl"]
       /\ pc' = [pc EXCEPT ![c] = IF pool.scans # {} THEN "checkUrlSafety"
                                  ELSE "findByNormalizedUrl"]
       /\ UNCHANGED last
  /\ opsLeft' = opsLeft - 1
  /\ UNCHANGED <<now, store, cache, fetchedAt, bus, pool, consumerVars, faultsLeft, deleted>>

(***************************************************************************)
(* UrlController.batchCreateUrls                                           *)
(***************************************************************************)
\* The tasks that run the entries of a batch, by position.
EntryTasks == <<"c1", "c2">>

\* What the handler throws for a body it does not process ({} otherwise).
BatchRejection(urls) ==
  IF urls = {}
  THEN {Thrown("BadRequestException", 400, "Invalid batch format: urls array is required")}
  ELSE IF Len(The(urls)) = 0
  THEN {Thrown("BadRequestException", 400, "At least one URL is required")}
  ELSE IF Len(The(urls)) > MaxBatch
  THEN {Thrown("BadRequestException", 400, "Maximum 100 URLs allowed per batch")}
  ELSE {}

\* POST /urls/batch arrives: the guard, the tests of the body, then
\* urls.map starts createShortUrl for every entry, each running up to its
\* first await, and the handler waits in Promise.allSettled.
CallBatchCreateUrls(c) ==
  /\ MayCall(c, "batchCreateUrls")
  /\ c = EntryTasks[1]
  /\ \A s \in pool.clients : Idle(s)
  /\ \E urls \in pool.bodies, key \in pool.keys :
       LET a == [NoArg EXCEPT !.urls = urls, !.via = "batch", !.key = key]
           denied == canActivate(key)
           rejected == BatchRejection(urls)
           n == Len(The(urls))
           started == {EntryTasks[i] : i \in 1..n}
           IndexOf(s) == CHOOSE i \in 1..n : EntryTasks[i] = s
           dtoOf(s) == The(urls)[IndexOf(s)]
           normOf(s) == normalizedOf[dtoOf(s).url]
           peersOf(s) == {q \in started \ {s} : normOf(q) = normOf(s)}
           rivalsOf(s) == {q \in started \ ({s} \cup peersOf(s)) :
                             /\ dtoOf(s).customAlias # NoAlias
                             /\ dtoOf(q).customAlias = dtoOf(s).customAlias}
       IN
       IF denied # {}
       THEN EndCall(c, "batchCreateUrls", a, NoLoc,
                    Thrown(The(denied).error, The(denied).status, The(denied).message))
       ELSE IF rejected # {}
       THEN EndCall(c, "batchCreateUrls", a, NoLoc, The(rejected))
       ELSE /\ n <= Cardinality(pool.clients)
            /\ arg' = [s \in Tasks |->
                 IF s \in started
                 THEN [a EXCEPT !.url = {dtoOf(s).url}, !.customAlias = dtoOf(s).customAlias,
                                !.expiresAt = dtoOf(s).expiresAt, !.entry = IndexOf(s)]
                 ELSE arg[s]]
            /\ loc' = [s \in Tasks |->
                 IF s \in started
                 THEN [NoLoc EXCEPT !.normalized = {normOf(s)}, !.peers = peersOf(s),
                                    !.rivals = rivalsOf(s),
                                    !.fresh = (FindOneByNormalized(normOf(s)) = {}),
                                    !.aliasFree = (FindOneByCode(dtoOf(s).customAlias) = {})]
                 ELSE loc[s]]
            /\ op' = [s \in Tasks |-> IF s \in started THEN "createShortUrl" ELSE op[s]]
            /\ pc' = [s \in Tasks |->
                 IF s \in started
                 THEN IF pool.scans # {} THEN "checkUrlSafety" ELSE "findByNormalizedUrl"
                 ELSE pc[s]]
            /\ UNCHANGED last
  /\ opsLeft' = opsLeft - 1
  /\ UNCHANGED <<now, store, cache, fetchedAt, bus, pool, consumerVars, faultsLeft, deleted>>

\* Promise.allSettled resolves: the outcomes are sorted, in the order of the
\* entries, into success and errors, and the handler returns both.
BatchRespond ==
  LET entries == {t \in Tasks : arg[t].entry # 0}
      n == Cardinality(entries)
      owner == EntryTasks[1]
      urls == The(arg[owner].urls)
      results == [i \in 1..n |-> [result |-> The(loc[EntryTasks[i]].res), url |-> urls[i].url]]
      fulfilled == SelectSeq(results, LAMBDA r : r.result.value # {})
      failed == SelectSeq(results, LAMBDA r : r.result.value = {})
      success == [i \in 1..Len(fulfilled) |->
                    [shortCode |-> fulfilled[i].result.code,
                     originalUrl |-> The(fulfilled[i].result.value).original]]
      errors == [i \in 1..Len(failed) |->
                   [url |-> failed[i].url, error |-> failed[i].result.message]]
  IN
  /\ entries # {}
  /\ \A t \in entries : pc[t] = "settled"
  /\ last' = [task |-> owner, op |-> "batchCreateUrls",
              arg |-> [arg[owner] EXCEPT !.url = {}, !.customAlias = NoAlias,
                                         !.expiresAt = NoExpiry, !.entry = 0],
              loc |-> NoLoc,
              res |-> [Returned({}) EXCEPT !.success = success, !.errors = errors]]
  /\ pc' = [t \in Tasks |-> IF t \in entries THEN "idle" ELSE pc[t]]
  /\ op' = [t \in Tasks |-> IF t \in entries THEN "none" ELSE op[t]]
  /\ arg' = [t \in Tasks |-> IF t \in entries THEN NoArg ELSE arg[t]]
  /\ loc' = [t \in Tasks |-> IF t \in entries THEN NoLoc ELSE loc[t]]
  /\ UNCHANGED <<now, store, cache, fetchedAt, bus, pool, consumerVars, opsLeft, faultsLeft,
                 deleted>>

\* checkUrlSafety: virusTotalService.checkUrl resolves.  A URL that is not
\* safe is refused with a BadRequestException, which the catch rethrows.
CheckUrlSafety(t) ==
  /\ pc[t] = "checkUrlSafety"
  /\ \E scan \in pool.scans :
       LET isSafe == checkUrl(scan)
           l == [loc[t] EXCEPT !.scan = {scan}]
       IN  IF ~isSafe
           THEN End(t, l, Thrown("BadRequestException", 400,
                                 "URL appears to be malicious and cannot be shortened"))
           ELSE /\ pc' = [pc EXCEPT ![t] = "findByNormalizedUrl"]
                /\ loc' = [loc EXCEPT ![t] = l]
                /\ UNCHANGED <<op, arg, last>>
  /\ UNCHANGED <<now, store, cache, fetchedAt, bus, pool, consumerVars, opsLeft, faultsLeft, deleted>>

\* The pre-check resolves: return the existing record, or go on to the code.
\* validateCustomAlias's length test runs before its own await.
FindByNormalizedUrl(t) ==
  /\ pc[t] = "findByNormalizedUrl"
  /\ LET existingUrl == FindOneByNormalized(The(loc[t].normalized))
         alias == arg[t].customAlias
     IN
     IF existingUrl # {} /\ ~isExpired(The(existingUrl), now)
     THEN End(t, loc[t], Created(The(existingUrl), FALSE))
     ELSE IF alias # NoAlias
     THEN IF Len(alias) < customAliasMinLength \/ Len(alias) > customAliasMaxLength
          THEN End(t, loc[t], Thrown("BadRequestException", 400, "Custom alias must be between"))
          ELSE /\ pc' = [pc EXCEPT ![t] = "validateCustomAlias"]
               /\ UNCHANGED <<op, arg, loc, last>>
     ELSE /\ pc' = [pc EXCEPT ![t] = "generateUniqueCode"]
          /\ UNCHANGED <<op, arg, loc, last>>
  /\ UNCHANGED <<now, store, cache, fetchedAt, bus, pool, consumerVars, opsLeft, faultsLeft, deleted>>

\* validateCustomAlias: the findOne on the alias resolves.
ValidateCustomAlias(t) ==
  /\ pc[t] = "validateCustomAlias"
  /\ IF FindOneByCode(arg[t].customAlias) # {}
     THEN End(t, loc[t], Thrown("BadRequestException", 400, "Custom alias already exists"))
     ELSE /\ loc' = [loc EXCEPT ![t].code = arg[t].customAlias]
          /\ pc' = [pc EXCEPT ![t] = "save"]
          /\ UNCHANGED <<op, arg, last>>
  /\ UNCHANGED <<now, store, cache, fetchedAt, bus, pool, consumerVars, opsLeft, faultsLeft, deleted>>

\* generateUniqueCode: one probe of the loop resolves; after maxAttempts
\* collisions a longer code is returned unprobed.
GenerateUniqueCode(t) ==
  /\ pc[t] = "generateUniqueCode"
  /\ \E code \in nanoid(pool.gen, defaultCodeLength) :
       IF FindOneByCode(code) = {}
       THEN /\ loc' = [loc EXCEPT ![t].attempt = 0, ![t].code = code]
            /\ pc' = [pc EXCEPT ![t] = "save"]
       ELSE IF loc[t].attempt + 1 < maxAttempts
       THEN /\ loc' = [loc EXCEPT ![t].attempt = @ + 1]
            /\ UNCHANGED pc
       ELSE \E longer \in nanoid(pool.gen, defaultCodeLength + 2) :
            /\ loc' = [loc EXCEPT ![t].attempt = 0, ![t].code = longer]
            /\ pc' = [pc EXCEPT ![t] = "save"]
  /\ UNCHANGED <<now, store, cache, fetchedAt, bus, pool, consumerVars, opsLeft, faultsLeft, op, arg, last, deleted>>

\* urlRepository.save resolves: the row is inserted, or the insert is
\* rejected by the database and the error leaves createShortUrl.
Save(t) ==
  /\ pc[t] = "save"
  /\ LET urlEntity == NewEntity(loc[t].code, [arg[t] EXCEPT !.url = The(@)],
                                The(loc[t].normalized), now)
     IN
     IF InsertViolation(urlEntity)
     THEN /\ End(t, loc[t], Thrown("QueryFailedError", 500,
                    IF Len(urlEntity.code) > CodeColumnLength
                    THEN "value too long for type character varying(16)"
                    ELSE "duplicate key value violates unique constraint"))
          /\ UNCHANGED <<store, deleted>>
     ELSE /\ store' = store \cup {urlEntity}
          /\ loc' = [s \in Tasks |->
                       IF s = t THEN [loc[s] EXCEPT !.url = {urlEntity}, !.asOf = {now}]
                       ELSE IF arg[s].code = urlEntity.code
                            THEN [loc[s] EXCEPT !.afterDelete = FALSE]
                            ELSE loc[s]]
          /\ deleted' = deleted \ {urlEntity.code}
          /\ pc' = [pc EXCEPT ![t] = "cacheUrl_create"]
          /\ UNCHANGED <<op, arg, last>>
  /\ UNCHANGED <<now, cache, fetchedAt, bus, pool, consumerVars, opsLeft, faultsLeft>>

\* cacheUrl(savedUrl) resolves and createShortUrl returns isNew = true.
CacheUrlCreate(t) ==
  /\ pc[t] = "cacheUrl_create"
  /\ \E f \in FaultChoices :
       /\ cache' = cacheUrl(The(loc[t].url), f)
       /\ fetchedAt' = Fetched(The(loc[t].url).code, loc[t].asOf, f)
       /\ faultsLeft' = Spend(f)
       /\ End(t, Noted(loc[t], f, "cache"), Created(The(loc[t].url), TRUE))
  /\ UNCHANGED <<now, store, bus, pool, consumerVars, opsLeft, deleted>>


(***************************************************************************)
(* UrlService.findByCode, shared by the direct call, the redirect and      *)
(* incrementHitCount.                                                      *)
(***************************************************************************)
\* findByCode resolves to url (a set: {} is null) and its caller goes on.
FindByCodeReturns(t, l, url) ==
  CASE op[t] = "findByCode" -> End(t, l, Returned(url))
    [] op[t] = "preview" ->
         IF url = {}
         THEN End(t, l, Thrown("NotFoundException", 404, "Short URL not found"))
         ELSE End(t, l, Returned({PreviewOf(The(url), now)}))
    [] op[t] = "redirect" ->
         /\ pc' = [pc EXCEPT ![t] = "dispatch"]
         /\ loc' = [loc EXCEPT ![t] = [l EXCEPT !.url = url]]
         /\ UNCHANGED <<op, arg, last>>
    [] op[t] = "incrementHitCount" ->
         IF url # {}
         THEN /\ pc' = [pc EXCEPT ![t] = "cacheUrl_inc"]
              /\ loc' = [loc EXCEPT ![t] = [l EXCEPT !.url = url]]
              /\ UNCHANGED <<op, arg, last>>
         ELSE End(t, l, Returned({}))

\* What a call of findByCode(code) records when it starts.
FindByCodeStarts(l, code) == [l EXCEPT !.afterDelete = (code \in deleted)]

CallFindByCode(c) ==
  /\ MayCall(c, "findByCode")
  /\ \E code \in pool.codes :
       /\ arg' = [arg EXCEPT ![c] = [NoArg EXCEPT !.code = code]]
       /\ loc' = [loc EXCEPT ![c] = FindByCodeStarts(NoLoc, code)]
  /\ op' = [op EXCEPT ![c] = "findByCode"]
  /\ pc' = [pc EXCEPT ![c] = "getCachedUrl"]
  /\ opsLeft' = opsLeft - 1
  /\ UNCHANGED <<now, store, cache, fetchedAt, bus, pool, consumerVars, faultsLeft, last, deleted>>

\* getCachedUrl resolves: a hit is returned, a miss goes to the database.
GetCachedUrl(t) ==
  /\ pc[t] = "getCachedUrl"
  /\ \E f \in FaultChoices :
       LET cachedUrl == getCachedUrl(arg[t].code, f)
           l == [Noted(loc[t], f, "cacheGet") EXCEPT
                   !.cacheHeld = (CacheGet(arg[t].code) # {}),
                   !.asOf = IF cachedUrl # {} THEN FetchedAtOf(arg[t].code) ELSE {}]
       IN
       /\ faultsLeft' = Spend(f)
       /\ IF cachedUrl # {}
          THEN FindByCodeReturns(t, l, cachedUrl)
          ELSE /\ pc' = [pc EXCEPT ![t] = "findOne"]
               /\ loc' = [loc EXCEPT ![t] = l]
               /\ UNCHANGED <<op, arg, last>>
  /\ UNCHANGED <<now, store, cache, fetchedAt, bus, pool, consumerVars, opsLeft, deleted>>

\* urlRepository.findOne({code}) resolves or rejects; a rejection is caught
\* by findByCode, which then returns null.
FindOne(t) ==
  /\ pc[t] = "findOne"
  /\ \E f \in FaultChoices :
       LET url == FindOneByCode(arg[t].code)
           l == [Noted(loc[t], f, "storeRead") EXCEPT
                   !.readStore = TRUE, !.storeHeld = (url # {}),
                   !.asOf = IF f THEN {} ELSE {now}]
       IN
       /\ faultsLeft' = Spend(f)
       /\ IF f THEN FindByCodeReturns(t, l, {})
          ELSE IF url # {}
          THEN /\ pc' = [pc EXCEPT ![t] = "cacheUrl_find"]
               /\ loc' = [loc EXCEPT ![t] = [l EXCEPT !.url = url]]
               /\ UNCHANGED <<op, arg, last>>
          ELSE FindByCodeReturns(t, l, {})
  /\ UNCHANGED <<now, store, cache, fetchedAt, bus, pool, consumerVars, opsLeft, deleted>>

\* cacheUrl(url) of findByCode resolves and findByCode returns url.
CacheUrlFind(t) ==
  /\ pc[t] = "cacheUrl_find"
  /\ \E f \in FaultChoices :
       /\ cache' = cacheUrl(The(loc[t].url), f)
       /\ fetchedAt' = Fetched(The(loc[t].url).code, loc[t].asOf, f)
       /\ faultsLeft' = Spend(f)
       /\ FindByCodeReturns(t, [Noted(loc[t], f, "cache") EXCEPT !.wroteCache = ~f],
                            loc[t].url)
  /\ UNCHANGED <<now, store, bus, pool, consumerVars, opsLeft, deleted>>

(***************************************************************************)
(* UrlService.getUrlStats                                                  *)
(***************************************************************************)
\* The where clause {expiresAt: Not(IsNull()) && Not(undefined)}: the &&
\* of two objects is the second one, Not(undefined), which the query
\* builder turns into "expiresAt" != NULL, true of no row.
NotUndefined(expiresAt) == FALSE

CallGetUrlStats(c) ==
  /\ MayCall(c, "getUrlStats")
  /\ op' = [op EXCEPT ![c] = "getUrlStats"]
  /\ pc' = [pc EXCEPT ![c] = "count"]
  /\ opsLeft' = opsLeft - 1
  /\ UNCHANGED <<now, store, cache, fetchedAt, bus, pool, consumerVars, faultsLeft, arg, loc, last, deleted>>

\* Promise.all of the two counts resolves, or one of them rejects and
\* getUrlStats rethrows.
GetUrlStats(t) ==
  /\ pc[t] = "count"
  /\ \E f \in FaultChoices :
       LET total == Cardinality(store)
           expired == Cardinality({r \in store : NotUndefined(r.expiresAt)})
       IN
       /\ faultsLeft' = Spend(f)
       /\ IF f
          THEN End(t, Noted(loc[t], f, "count"), Thrown("QueryFailedError", 500, "count failed"))
          ELSE End(t, loc[t], Returned({[total |-> total, active |-> total - expired,
                                        expired |-> expired]}))
  /\ UNCHANGED <<now, store, cache, fetchedAt, bus, pool, consumerVars, opsLeft, deleted>>

(***************************************************************************)
(* UrlService.deleteUrl                                                    *)
(***************************************************************************)
\* deleteUrl is called on the service, or DELETE /urls/:code arrives: the
\* guard, then the controller's test of the code, then the service.
CallDeleteUrl(c) ==
  /\ MayCall(c, "deleteUrl")
  /\ \E code \in pool.codes, via \in pool.vias \ {"post", "batch"}, key \in pool.keys :
       LET a == [NoArg EXCEPT !.code = code, !.via = via,
                              !.key = IF via = "delete" THEN key ELSE ""]
           denied == IF via = "delete" THEN canActivate(key) ELSE {}
       IN
       IF denied # {}
       THEN EndCall(c, "deleteUrl", a, NoLoc,
                    Thrown(The(denied).error, The(denied).status, The(denied).message))
       ELSE IF via = "delete" /\ (Len(code) < 3 \/ Len(code) > 50)
       THEN EndCall(c, "deleteUrl", a, NoLoc,
                    Thrown("BadRequestException", 400, "Invalid URL code format"))
       ELSE /\ arg' = [arg EXCEPT ![c] = a]
            /\ op' = [op EXCEPT ![c] = "deleteUrl"]
            /\ pc' = [pc EXCEPT ![c] = "delete"]
            /\ UNCHANGED <<loc, last>>
  /\ opsLeft' = opsLeft - 1
  /\ UNCHANGED <<now, store, cache, fetchedAt, bus, pool, consumerVars, faultsLeft, deleted>>

\* urlRepository.delete({code}) resolves with the number of rows affected,
\* or rejects and deleteUrl rethrows.
Delete(t) ==
  /\ pc[t] = "delete"
  /\ \E f \in FaultChoices :
       LET affected == FindOneByCode(arg[t].code) IN
       /\ faultsLeft' = Spend(f)
       /\ IF f
          THEN /\ End(t, Noted(loc[t], f, "delete"), Thrown("QueryFailedError", 500, "delete failed"))
               /\ UNCHANGED store
          ELSE /\ store' = store \ affected
               /\ IF affected # {}
                  THEN /\ pc' = [pc EXCEPT ![t] = "removeCachedUrl"]
                       /\ UNCHANGED <<op, arg, loc, last>>
                  ELSE IF arg[t].via = "delete"
                  THEN End(t, loc[t], Thrown("NotFoundException", 404, "URL not found"))
                  ELSE End(t, loc[t], [Returned({}) EXCEPT !.message = "false"])
  /\ UNCHANGED <<now, cache, fetchedAt, bus, pool, consumerVars, opsLeft, deleted>>

\* removeCachedUrl resolves and deleteUrl returns true.
RemoveCachedUrl(t) ==
  /\ pc[t] = "removeCachedUrl"
  /\ \E f \in FaultChoices :
       /\ cache' = removeCachedUrl(arg[t].code, f)
       /\ fetchedAt' = Forgotten(arg[t].code, f)
       /\ faultsLeft' = Spend(f)
       /\ End(t, Noted(loc[t], f, "cacheDel"), [Returned({}) EXCEPT !.message = "true"])
  /\ deleted' = deleted \cup {arg[t].code}
  /\ UNCHANGED <<now, store, bus, pool, consumerVars, opsLeft>>

(***************************************************************************)
(* UrlService.incrementHitCount                                            *)
(***************************************************************************)
CallIncrementHitCount(c) ==
  /\ MayCall(c, "incrementHitCount")
  /\ \E code \in pool.codes :
       arg' = [arg EXCEPT ![c] = [NoArg EXCEPT !.code = code]]
  /\ op' = [op EXCEPT ![c] = "incrementHitCount"]
  /\ pc' = [pc EXCEPT ![c] = "increment"]
  /\ opsLeft' = opsLeft - 1
  /\ UNCHANGED <<now, store, cache, fetchedAt, bus, pool, consumerVars, faultsLeft, loc, last, deleted>>

\* urlRepository.increment resolves or rejects; a rejection is caught and
\* logged, and incrementHitCount resolves.  Otherwise findByCode is called.
Increment(t) ==
  /\ pc[t] = "increment"
  /\ \E f \in FaultChoices :
       /\ faultsLeft' = Spend(f)
       /\ IF f
          THEN /\ End(t, Noted(loc[t], f, "increment"), Returned({}))
               /\ UNCHANGED store
          ELSE /\ store' = IncrementRows(arg[t].code)
               /\ pc' = [pc EXCEPT ![t] = "getCachedUrl"]
               /\ loc' = [loc EXCEPT ![t] = FindByCodeStarts(@, arg[t].code)]
               /\ UNCHANGED <<op, arg, last>>
  /\ UNCHANGED <<now, cache, fetchedAt, bus, pool, consumerVars, opsLeft, deleted>>

\* The second cacheUrl(url), of incrementHitCount, resolves.
CacheUrlInc(t) ==
  /\ pc[t] = "cacheUrl_inc"
  /\ \E f \in FaultChoices :
       /\ cache' = cacheUrl(The(loc[t].url), f)
       /\ fetchedAt' = Fetched(The(loc[t].url).code, loc[t].asOf, f)
       /\ faultsLeft' = Spend(f)
       /\ End(t, Noted(loc[t], f, "cache"), Returned({}))
  /\ UNCHANGED <<now, store, bus, pool, consumerVars, opsLeft, deleted>>

(***************************************************************************)
(* RedirectController.redirect                                             *)
(***************************************************************************)
\* GET /:code up to its first await: the code format test, then findByCode.
CallRedirect(c) ==
  /\ MayCall(c, "redirect")
  /\ Idle(BgOf(c))
  /\ \E code \in pool.codes :
       LET a == [NoArg EXCEPT !.code = code] IN
       IF ~ValidCodeFormat(code)
       THEN /\ EndCall(c, "redirect", a, NoLoc,
                       Thrown("BadRequestException", 400, "Invalid URL code format"))
       ELSE /\ arg' = [arg EXCEPT ![c] = a]
            /\ loc' = [loc EXCEPT ![c] = FindByCodeStarts(NoLoc, code)]
            /\ op' = [op EXCEPT ![c] = "redirect"]
            /\ pc' = [pc EXCEPT ![c] = "getCachedUrl"]
            /\ UNCHANGED last
  /\ opsLeft' = opsLeft - 1
  /\ UNCHANGED <<now, store, cache, fetchedAt, bus, pool, consumerVars, faultsLeft, deleted>>

\* GET /:code/preview: the format check, then findByCode.
CallPreview(c) ==
  /\ MayCall(c, "preview")
  /\ \E code \in pool.codes :
       LET a == [NoArg EXCEPT !.code = code] IN
       IF ~ValidCodeFormat(code)
       THEN /\ EndCall(c, "preview", a, NoLoc,
                       Thrown("BadRequestException", 400, "Invalid URL code format"))
       ELSE /\ arg' = [arg EXCEPT ![c] = a]
            /\ loc' = [loc EXCEPT ![c] = FindByCodeStarts(NoLoc, code)]
            /\ op' = [op EXCEPT ![c] = "preview"]
            /\ pc' = [pc EXCEPT ![c] = "getCachedUrl"]
            /\ UNCHANGED last
  /\ opsLeft' = opsLeft - 1
  /\ UNCHANGED <<now, store, cache, fetchedAt, bus, pool, consumerVars, faultsLeft, deleted>>

\* After findByCode: 404, 410, the open-redirect guard, then incrementHitCount
\* is started without being awaited and recordHitEvent is awaited, which
\* first awaits the geo lookup.
RedirectDispatch(c) ==
  /\ pc[c] = "dispatch"
  /\ LET url == loc[c].url
         l == [loc[c] EXCEPT !.checkedAt = {now}]
     IN
     IF url = {}
     THEN End(c, l, Thrown("NotFoundException", 404, "Short URL not found"))
     ELSE IF isExpired(The(url), now)
     THEN End(c, l, Responded(410, {}))
     ELSE IF ~validRedirectOf[The(url).original]
     THEN End(c, l, Thrown("BadRequestException", 400, "Invalid redirect URL"))
     ELSE /\ pc' = [pc EXCEPT ![c] = "getLocationFromIp", ![BgOf(c)] = "increment"]
          /\ op' = [op EXCEPT ![BgOf(c)] = "incrementHitCount"]
          /\ arg' = [arg EXCEPT ![BgOf(c)] = arg[c]]
          /\ loc' = [loc EXCEPT ![c] = l]
          /\ UNCHANGED last
  /\ UNCHANGED <<now, store, cache, fetchedAt, bus, pool, consumerVars, opsLeft, faultsLeft, deleted>>

\* recordHitEvent: the enrichment resolves and the publish is issued, or the
\* enrichment throws and recordHitEvent's catch ends it.
GetLocationFromIp(c) ==
  /\ pc[c] = "getLocationFromIp"
  /\ \E f \in FaultChoices :
       /\ faultsLeft' = Spend(f)
       /\ pc' = [pc EXCEPT ![c] = IF f THEN "respond" ELSE "publishHitEvent"]
       /\ loc' = [loc EXCEPT ![c] = Noted(@, f, "enrich")]
  /\ UNCHANGED <<now, store, cache, fetchedAt, bus, pool, consumerVars, opsLeft, op, arg, last, deleted>>

\* A producer hands KafkaService.publishHitEvent a hit event of its own.
CallPublishHitEvent(c) ==
  /\ MayCall(c, "publishHitEvent")
  /\ \E ev \in pool.events :
       arg' = [arg EXCEPT ![c] = [NoArg EXCEPT !.event = {ev}]]
  /\ op' = [op EXCEPT ![c] = "publishHitEvent"]
  /\ pc' = [pc EXCEPT ![c] = "publishHitEvent"]
  /\ opsLeft' = opsLeft - 1
  /\ UNCHANGED <<now, store, cache, fetchedAt, bus, pool, consumerVars, faultsLeft, loc, last, deleted>>

\* The message publishHitEvent sends for task c: the event recordHitEvent
\* built for the redirect, or the producer's own.
MessageOf(c) ==
  IF op[c] = "redirect"
  THEN Enriched(HitEvent(arg[c].code, now, RequestIp, RequestAgent),
                "direct", "", "unknown", "unknown", "unknown")
  ELSE The(arg[c].event)

\* The publish with its rejection left uncaught: it leaves redirect as a 500.
PublishHitEvent_Rethrows(c) ==
  /\ pc[c] = "publishHitEvent"
  /\ \E f \in FaultChoices :
       /\ faultsLeft' = Spend(f)
       /\ IF f
          THEN /\ End(c, Noted(loc[c], f, "publish"), Thrown("Error", 500, "publish failed"))
               /\ UNCHANGED bus
          ELSE /\ bus' = Append(bus, MessageOf(c))
               /\ IF op[c] = "redirect"
                  THEN /\ pc' = [pc EXCEPT ![c] = "respond"]
                       /\ UNCHANGED <<op, arg, loc, last>>
                  ELSE End(c, loc[c], Returned({}))
  /\ UNCHANGED <<now, store, cache, fetchedAt, pool, consumerVars, opsLeft, deleted>>

\* kafkaService.publishHitEvent: producer.send is acknowledged, or rejects
\* and the rejection is caught and logged.
PublishHitEvent(c) ==
  /\ pc[c] = "publishHitEvent"
  /\ \E f \in FaultChoices :
       /\ faultsLeft' = Spend(f)
       /\ bus' = IF f THEN bus ELSE Append(bus, MessageOf(c))
       /\ IF op[c] = "redirect"
          THEN /\ loc' = [loc EXCEPT ![c] = Noted(@, f, "publish")]
               /\ pc' = [pc EXCEPT ![c] = "respond"]
               /\ UNCHANGED <<op, arg, last>>
          ELSE End(c, Noted(loc[c], f, "publish"), Returned({}))
  /\ UNCHANGED <<now, store, cache, fetchedAt, pool, consumerVars, opsLeft, deleted>>

(***************************************************************************)
(* KafkaService.startConsumer's eachMessage, with                          *)
(* AnalyticsConsumerService.processHitEvent as its handler and             *)
(* CassandraService.recordHitEvent behind it.  Messages are processed one  *)
(* at a time; when eachMessage resolves the runner acknowledges the offset.*)
(***************************************************************************)
\* The messages of partition p, the one acknowledged last coming first.
PartitionLog_NewestFirst(p) ==
  LET log == SelectSeq(bus, LAMBDA m : PartitionOf(m.code) = p)
  IN  [i \in 1..Len(log) |-> log[Len(log) + 1 - i]]

\* The messages of partition p, in the order the broker acknowledged them.
PartitionLog(p) == SelectSeq(bus, LAMBDA m : PartitionOf(m.code) = p)

\* Where in bus the k-th message of partition p is.
PositionInBus(p, k) ==
  CHOOSE i \in 1..Len(bus) :
    /\ PartitionOf(bus[i].code) = p
    /\ Cardinality({j \in 1..i : PartitionOf(bus[j].code) = p}) = k

\* The topic is created with cleanup.policy = compact and its messages are
\* keyed by code: once the segment of a message is closed, the broker's log
\* cleaner removes the message if a later one has the same key.  The
\* offsets of the remaining messages stay as they are.
Compact ==
  /\ pool.compaction
  /\ \E i \in 1..Len(bus) :
       /\ i \notin compacted
       /\ \E j \in (i + 1)..Len(bus) : bus[j].code = bus[i].code
       /\ compacted' = compacted \cup {i}
  /\ UNCHANGED <<now, store, cache, fetchedAt, bus, pool, opsLeft, faultsLeft, pc, op, arg, loc,
                 last, deleted, offsets, inflight, handled, hitsByHour, accessTimes,
                 uniqueVisitors, hitsByMinute, referrers, geographic, devices, consumerState>>

\* eachMessage is done with a message.
Handled(m, outcome) == [m EXCEPT !.outcome = outcome]

\* The runner hands the next message of a partition to eachMessage:
\* parseHitEvent, then processHitEvent up to its await.  An invalid event is
\* logged and eachMessage resolves.
EachMessage(p) ==
  /\ pool.consumer
  /\ consumerState = "Running"
  /\ inflight = {}
  /\ offsets[p] < Len(PartitionLog(p))
  /\ LET m == [partition |-> p, offset |-> offsets[p],
               event |-> parseHitEvent(PartitionLog(p)[offsets[p] + 1]),
               at |-> now, outcome |-> "pending"]
     IN  IF PositionInBus(p, offsets[p] + 1) \in compacted
         THEN /\ offsets' = [offsets EXCEPT ![p] = @ + 1]
              /\ UNCHANGED <<handled, inflight>>
         ELSE
         IF ~isValidHitEvent(m.event, now)
         THEN /\ handled' = Append(handled, Handled(m, "dropped"))
              /\ offsets' = [offsets EXCEPT ![p] = @ + 1]
              /\ UNCHANGED inflight
         ELSE /\ inflight' = {m}
              /\ UNCHANGED <<handled, offsets>>
  /\ UNCHANGED <<now, store, cache, fetchedAt, bus, pool, opsLeft, faultsLeft, pc, op, arg, loc, last,
                 deleted, hitsByHour, accessTimes, uniqueVisitors, hitsByMinute, referrers,
                 geographic, devices, consumerState, compacted>>

\* UPDATE hits_by_hour SET count = count + 1, unique_visitors = unique_visitors + 1
HitsByHourUpdate(e) ==
  LET key == [code |-> e.code, date |-> DateOf(e.timestamp), hour |-> HourOf(e.timestamp)]
      old == {r \in hitsByHour : r.key = key}
  IN  (hitsByHour \ old) \cup
      {[key |-> key,
        count |-> IF old = {} THEN 1 ELSE The(old).count + 1,
        unique_visitors |-> IF old = {} THEN 1 ELSE The(old).unique_visitors + 1]}

\* UPDATE <table> SET count = count + 1 WHERE <key>: a counter row that does
\* not exist counts from 0.
CounterUpdate(rows, key) ==
  LET old == {r \in rows : r.key = key}
  IN  (rows \ old) \cup {[key |-> key, count |-> IF old = {} THEN 1 ELSE The(old).count + 1]}

\* UPDATE hits_by_minute SET count = count + 1, unique_visitors = unique_visitors + 1
HitsByMinuteUpdate(e) ==
  CounterUpdate(hitsByMinute,
                [code |-> e.code, date |-> DateOf(e.timestamp), hour |-> HourOf(e.timestamp),
                 minute |-> MinuteOf(e.timestamp)])

\* UPDATE referrers, pushed if (hitEvent.referrer && hitEvent.referrer !== 'direct')
ReferrersUpdate(e) ==
  IF e.referrer # "" /\ e.referrer # "direct"
  THEN CounterUpdate(referrers, [code |-> e.code, referrer |-> e.referrer])
  ELSE referrers

\* UPDATE geographic, pushed if (hitEvent.country)
GeographicUpdate(e) ==
  IF e.country # ""
  THEN CounterUpdate(geographic, [code |-> e.code, country |-> e.country])
  ELSE geographic

\* UPDATE devices, pushed if (hitEvent.deviceType || hitEvent.browser || hitEvent.os)
DevicesUpdate(e) ==
  IF e.deviceType # "" \/ e.browser # "" \/ e.os # ""
  THEN CounterUpdate(devices,
                     [code |-> e.code, device_type |-> OrUnknown(e.deviceType),
                      browser |-> OrUnknown(e.browser), os |-> OrUnknown(e.os)])
  ELSE devices

\* UPDATE access_times SET first_accessed = ?, last_accessed = ? WHERE code = ?
\* with the event's timestamp for both.
AccessTimesUpdate(e) ==
  {r \in accessTimes : r.code # e.code} \cup
  {[code |-> e.code, first_accessed |-> e.timestamp, last_accessed |-> e.timestamp]}

\* The insert with the hour of the visit made part of the row's key.
UniqueVisitorsInsert_PerHour(e) ==
  uniqueVisitors \cup
  {[code |-> e.code, date |-> DateOf(e.timestamp),
    visitor_hash |-> createVisitorHash(e.ip, e.userAgent) \o
                     (IF HourOf(e.timestamp) = 0 THEN "" ELSE "+")]}

\* INSERT INTO unique_visitors ... IF NOT EXISTS
UniqueVisitorsInsert(e) ==
  uniqueVisitors \cup
  {[code |-> e.code, date |-> DateOf(e.timestamp),
    visitor_hash |-> createVisitorHash(e.ip, e.userAgent)]}

\* client.batch(queries) resolves or rejects.  A rejection is rethrown by
\* recordHitEvent, caught by processHitEvent and logged by handleFailedEvent;
\* either way eachMessage resolves.  An Invalid Date cannot be bound to the
\* statements' parameters.
RecordHitEvent ==
  /\ inflight # {}
  /\ consumerState # "Stopped"
  /\ \E f \in FaultChoices :
       LET m == The(inflight)
           e == m.event
           rejected == f \/ e.timestamp = InvalidDate
       IN
       /\ faultsLeft' = Spend(f)
       /\ hitsByHour' = IF rejected THEN hitsByHour ELSE HitsByHourUpdate(e)
       /\ accessTimes' = IF rejected THEN accessTimes ELSE AccessTimesUpdate(e)
       /\ uniqueVisitors' = IF rejected THEN uniqueVisitors ELSE UniqueVisitorsInsert(e)
       /\ hitsByMinute' = IF rejected THEN hitsByMinute ELSE HitsByMinuteUpdate(e)
       /\ referrers' = IF rejected THEN referrers ELSE ReferrersUpdate(e)
       /\ geographic' = IF rejected THEN geographic ELSE GeographicUpdate(e)
       /\ devices' = IF rejected THEN devices ELSE DevicesUpdate(e)
       /\ handled' = Append(handled, Handled(m, IF rejected THEN "failed" ELSE "applied"))
       /\ offsets' = [offsets EXCEPT ![m.partition] = @ + 1]
  /\ inflight' = {}
  /\ UNCHANGED <<now, store, cache, fetchedAt, bus, pool, opsLeft, pc, op, arg, loc, last, deleted,
                 consumerState, compacted>>

(***************************************************************************)
(* CassandraService.getAnalytics                                           *)
(***************************************************************************)
\* SUM(column) over a set of rows of hits_by_hour.
RECURSIVE SumOf(_, _)
SumOf(rows, column) ==
  IF rows = {} THEN 0
  ELSE LET r == CHOOSE x \in rows : TRUE
       IN  (IF column = "count" THEN r.count ELSE r.unique_visitors)
           + SumOf(rows \ {r}, column)

\* The date ranges a request may give: none, or startDate and endDate.
NoRange == {}
Range(startDate, endDate) == {[startDate |-> startDate, endDate |-> endDate]}

\* getTotalStats: SELECT SUM(count), SUM(unique_visitors) FROM hits_by_hour
\* WHERE code = ? [AND date >= ? AND date <= ?], read from table rows.
getTotalStats(rows, code, range) ==
  LET selected == {r \in rows :
                     /\ r.key.code = code
                     /\ \A g \in range : r.key.date >= g.startDate /\ r.key.date <= g.endDate}
  IN  [totalHits |-> SumOf(selected, "count"),
       uniqueVisitors |-> SumOf(selected, "unique_visitors")]

\* getAnalytics(code, startDate, endDate): the queries of its Promise.all
\* resolve and the totals of getTotalStats are returned with the rest.
CallGetAnalytics(c) ==
  /\ MayCall(c, "getAnalytics")
  /\ \E code \in pool.codes, range \in {NoRange, Range(0, 0)} :
       EndCall(c, "getAnalytics", [NoArg EXCEPT !.code = code, !.event = range], NoLoc,
               Returned({getTotalStats(hitsByHour, code, range)}))
  /\ opsLeft' = opsLeft - 1
  /\ UNCHANGED <<now, store, cache, fetchedAt, bus, pool, consumerVars, faultsLeft, deleted>>

(***************************************************************************)
(* Shutdown of the process that runs the consumer.                         *)
(***************************************************************************)
\* What a step of the shutdown leaves alone.
ShutdownFrame ==
  UNCHANGED <<now, store, cache, fetchedAt, bus, pool, opsLeft, faultsLeft, pc, op, arg, loc,
              last, deleted, offsets, inflight, handled, hitsByHour, accessTimes,
              uniqueVisitors, hitsByMinute, referrers, geographic, devices, compacted>>

\* SIGTERM or SIGINT arrives: the handler logs and calls process.exit(0).
\* No module is destroyed; the message eachMessage is processing, if any, is
\* never finished and its offset is never committed.
ProcessSignal ==
  /\ pool.shutdown
  /\ consumerState # "Stopped"
  /\ consumerState' = "Stopped"
  /\ ShutdownFrame

\* app.close(): AnalyticsConsumerService.onModuleDestroy clears isRunning and
\* KafkaService.onModuleDestroy awaits consumer.disconnect(), which stops
\* the runner from fetching.
OnModuleDestroy ==
  /\ pool.shutdown
  /\ consumerState = "Running"
  /\ consumerState' = "Draining"
  /\ ShutdownFrame

\* consumer.disconnect() resolves: the runner has waited for eachMessage,
\* committed the resolved offsets and left the group.
ConsumerDisconnect ==
  /\ consumerState = "Draining"
  /\ inflight = {}
  /\ consumerState' = "Stopped"
  /\ ShutdownFrame

\* res.redirect(statusCode, url.original)
Respond(c) ==
  /\ pc[c] = "respond"
  /\ LET original == The(loc[c].url).original
         statusCode == IF redirectTypeOf[original] = "permanent" THEN 301 ELSE 302
     IN  End(c, loc[c], Responded(statusCode, {original}))
  /\ UNCHANGED <<now, store, cache, fetchedAt, bus, pool, consumerVars, opsLeft, faultsLeft, deleted>>

Tick ==
  /\ now < pool.ticks
  /\ now' = now + 1
  /\ UNCHANGED <<store, cache, fetchedAt, bus, pool, consumerVars, opsLeft, faultsLeft, pc, op, arg, loc, last, deleted>>

Next ==
  \/ \E c \in Clients : CallNormalizeUrl(c)
  \/ \E c \in Clients : CallCreateShortUrl(c)
  \/ \E t \in Tasks : CheckUrlSafety(t)
  \/ \E t \in Tasks : FindByNormalizedUrl(t)
  \/ \E t \in Tasks : ValidateCustomAlias(t)
  \/ \E t \in Tasks : GenerateUniqueCode(t)
  \/ \E t \in Tasks : Save(t)
  \/ \E t \in Tasks : CacheUrlCreate(t)
  \/ \E c \in Clients : CallBatchCreateUrls(c)
  \/ BatchRespond
  \/ \E c \in Clients : CallFindByCode(c)
  \/ \E t \in Tasks : GetCachedUrl(t)
  \/ \E t \in Tasks : FindOne(t)
  \/ \E t \in Tasks : CacheUrlFind(t)
  \/ \E c \in Clients : CallGetAnalytics(c)
  \/ \E c \in Clients : CallGetUrlStats(c)
  \/ \E t \in Tasks : GetUrlStats(t)
  \/ \E c \in Clients : CallDeleteUrl(c)
  \/ \E t \in Tasks : Delete(t)
  \/ \E t \in Tasks : RemoveCachedUrl(t)
  \/ \E c \in Clients : CallIncrementHitCount(c)
  \/ \E t \in Tasks : Increment(t)
  \/ \E t \in Tasks : CacheUrlInc(t)
  \/ \E c \in Clients : CallRedirect(c)
  \/ \E c \in Clients : CallPreview(c)
  \/ \E c \in Clients : RedirectDispatch(c)
  \/ \E c \in Clients : GetLocationFromIp(c)
  \/ \E c \in Clients : CallPublishHitEvent(c)
  \/ \E c \in Clients : PublishHitEvent(c)
  \/ \E p \in Partitions : EachMessage(p)
  \/ RecordHitEvent
  \/ Compact
  \/ ProcessSignal
  \/ OnModuleDestroy
  \/ ConsumerDisconnect
  \/ \E c \in Clients : Respond(c)
  \/ Tick

Spec == Init /\ [][Next]_vars

\* The consumer's runner keeps fetching and every await of the handler
\* settles.
FairSpec ==
  /\ Init
  /\ [][Next]_vars
  /\ WF_vars(\E p \in Partitions : EachMessage(p))
  /\ WF_vars(RecordHitEvent)

(***************************************************************************)
(* Properties.                                                             *)
(***************************************************************************)
\* The URL a finished redirect or lookup had in hand.
LastUrl == The(last.loc.url)

\* The normalized form of the URL the last createShortUrl was called with.
LastNormalized == normalizedOf[The(last.arg.url)]

\* C1: no two records of the primary store share a code, and no two share a
\* normalized URL, whatever calls of createShortUrl, deleteUrl,
\* incrementHitCount and findByCode have run and however they interleaved.
C1_UniqueCodeAndNormalized ==
  \A r, s \in store : r # s => r.code # s.code /\ r.normalized # s.normalized

\* A second insert for a URL already in the store was attempted and rejected.
C1_Witness ==
  /\ last.op = "createShortUrl"
  /\ last.res.error = "QueryFailedError"
  /\ \E r \in store : r.normalized = LastNormalized

\* C2 (as claimed): a createShortUrl without custom alias that ran
\* concurrently with another one for the same normalized URL, none being
\* stored beforehand, does not fail: it returns the code of the one record
\* stored for that normalized URL.
C2_ConcurrentDuplicatesBothSucceed ==
  (/\ last.op = "createShortUrl"
   /\ last.arg.customAlias = NoAlias
   /\ last.loc.peers # {}
   /\ last.loc.fresh
   /\ deleted = {})
  => /\ last.res.kind = "return"
     /\ Cardinality(FindOneByNormalized(LastNormalized)) = 1
     /\ last.res.code = The(FindOneByNormalized(LastNormalized)).code

\* C3: when the pre-check of createShortUrl finds a record with the same
\* normalized URL that has not expired, the call returns that record's code
\* with isNew = false and the store is left as it was.
C3_ExistingReturnedUnchanged ==
  [][\A t \in Tasks :
       (/\ pc[t] = "findByNormalizedUrl"
        /\ pc'[t] # pc[t]
        /\ \E r \in store : /\ {r.normalized} = loc[t].normalized
                            /\ (r.expiresAt = NoExpiry \/ r.expiresAt > now))
       => /\ store' = store
          /\ last'.task = t
          /\ last'.res.kind = "return"
          /\ last'.res.isNew = FALSE
          /\ \E r \in store : /\ {r.normalized} = loc[t].normalized
                              /\ last'.res.code = r.code
                              /\ last'.res.value = {r}]_vars

\* A URL was submitted whose text differs from the stored original and the
\* stored record came back.
C3_Witness ==
  /\ last.op = "createShortUrl"
  /\ last.res.kind = "return"
  /\ ~last.res.isNew
  /\ last.res.value # {}
  /\ last.arg.url # {The(last.res.value).original}
  /\ last.res.value \subseteq store

\* C4 (as claimed): a redirect that finds a record whose original passes the
\* guard, and that checks expiry at time t, answers 301/302 iff expiresAt is
\* null or later than t, and 410 iff expiresAt is t or earlier.
C4_RedirectIffNotExpired ==
  (/\ last.op = "redirect"
   /\ last.loc.url # {}
   /\ last.loc.checkedAt # {})
  => (validRedirectOf[LastUrl.original] =>
        LET e == LastUrl.expiresAt
            t == The(last.loc.checkedAt)
        IN  /\ (last.res.status \in {301, 302}) <=> (e = NoExpiry \/ e > t)
            /\ (last.res.status = 410) <=> (e # NoExpiry /\ e <= t))

\* The host of a URL as a name or address: lower-cased, an IPv6 literal
\* without its brackets.
HostOf(u) ==
  LET h == toLowerCase(u.host) IN
  IF startsWith(h, "[") /\ endsWith(h, "]") THEN SubSeq(h, 2, Len(h) - 1) ELSE h

\* The targets claim C5 forbids.
ForbiddenTarget(u) ==
  LET h == HostOf(u)
      parts == Split(h, ".")
      ipv4 == /\ Len(parts) = 4
              /\ \A i \in 1..4 : Len(parts[i]) \in 1..3 /\ AllDigits(parts[i])
  IN  \/ u.scheme \notin {"http", "https"}
      \/ h \in {"localhost", "127.0.0.1", "::1"}
      \/ /\ ipv4
         /\ LET a == NumberOf(parts[1])
                b == NumberOf(parts[2])
            IN  \/ a \in {10, 127}
                \/ (a = 172 /\ b \in 16..31)
                \/ (a = 192 /\ b = 168)
                \/ (a = 169 /\ b = 254)
      \/ \E tld \in {".tk", ".ml", ".ga", ".cf"} : endsWith(h, tld)

forbiddenOf == [u \in InputUrls |-> ForbiddenTarget(u)]

\* C5 (as claimed): a redirect is never answered 301/302 with a forbidden
\* Location; for a record with a forbidden original the answer is 400, and
\* no hit is counted or published.
C5_NoForbiddenLocation ==
  /\ (last.op = "redirect" /\ last.res.status \in {301, 302})
       => \A u \in last.res.location : ~forbiddenOf[u]
  /\ (last.op = "redirect" /\ last.loc.url # {})
       => (forbiddenOf[LastUrl.original] =>
             /\ last.res.kind = "throw"
             /\ last.res.status = 400)
  /\ \A r \in store : forbiddenOf[r.original] => r.hitCount = 0
  /\ \A i \in 1..Len(bus) :
       \A r \in FindOneByCode(bus[i].code) : ~forbiddenOf[r.original]

\* C6: a redirect that found a record, not expired when checked, whose
\* original passes the guard, answers 301/302 with Location = original
\* whatever failed among the hit-count increment, the cache refresh, the
\* enrichment and the publish; and incrementHitCount always resolves.
C6_SideEffectsIsolated ==
  /\ (/\ last.op = "redirect"
      /\ last.loc.url # {}
      /\ last.loc.checkedAt # {})
     => ((~isExpired(LastUrl, The(last.loc.checkedAt)) /\ validRedirectOf[LastUrl.original])
           => /\ last.res.kind = "response"
              /\ last.res.status =
                   (IF redirectTypeOf[LastUrl.original] = "permanent" THEN 301 ELSE 302)
              /\ last.res.location = {LastUrl.original})
  /\ last.op = "incrementHitCount" => last.res.kind = "return"

\* A redirect was answered 302 although its publish was rejected.
C6_Witness ==
  /\ last.op = "redirect"
  /\ last.res.status = 302
  /\ "publish" \in last.loc.faults

\* C7 (as claimed): the task that writes the redirect response never waits
\* for the publish acknowledgement nor for the hit-count update.
C7_ResponseNeverWaits ==
  \A t \in Tasks :
    op[t] = "redirect" => pc[t] \notin {"publishHitEvent", "increment", "cacheUrl_inc"}

\* C8 (as claimed): findByCode returns the cache entry without reading the
\* store when the cache holds one and can be read; on a miss it reads the
\* store and, if the record is there, writes the cache (unless the write
\* fails) and returns the record; it returns null exactly when neither the
\* cache nor the store holds the code.
C8_CacheFirstNullIffAbsent ==
  last.op = "findByCode" =>
    /\ (last.loc.cacheHeld /\ "cacheGet" \notin last.loc.faults) =>
         /\ ~last.loc.readStore
         /\ \E v \in last.res.value : v = CachedEntity(last.arg.code,
              [original |-> v.original, expiresAt |-> v.expiresAt, hitCount |-> v.hitCount])
    /\ (~last.loc.cacheHeld /\ last.loc.storeHeld) =>
         /\ last.res.value # {}
         /\ (last.loc.wroteCache \/ "cache" \in last.loc.faults)
    /\ (last.res.value = {}) <=> (~last.loc.cacheHeld /\ ~last.loc.storeHeld)

\* C9 (as claimed): a findByCode(code) that starts after deleteUrl(code)
\* returned true, no record having been created for the code since, returns
\* null.
C9_NullAfterDelete ==
  (/\ last.op = "findByCode"
   /\ last.loc.afterDelete
   /\ last.arg.code \in deleted)
  => last.res.value = {}

\* C10 (as claimed): a createShortUrl with a well-formed custom alias, for a
\* URL that is not already shortened, that does not create the record fails
\* with the 400 alias-taken error, also when it lost a race for the alias.
C10_AliasLoserGets400 ==
  (/\ last.op = "createShortUrl"
   /\ last.arg.customAlias # NoAlias
   /\ Len(last.arg.customAlias) \in customAliasMinLength..customAliasMaxLength
   /\ last.loc.peers = {}
   /\ ~(last.res.kind = "return"))
  => /\ last.res.kind = "throw"
     /\ last.res.status = 400
     /\ last.res.message = "Custom alias already exists"

\* C11 (as claimed): a createShortUrl with a custom alias of 3 to 50
\* characters over [A-Za-z0-9_-] that is not in use, for a URL that is not
\* already shortened, with no other create racing for the URL or the alias,
\* succeeds, and the record it stored has customAlias = code = the alias.
C11_FreeAliasSucceeds ==
  (/\ last.op = "createShortUrl"
   /\ last.arg.customAlias # NoAlias
   /\ AliasValid(last.arg.customAlias)
   /\ last.arg.expiresAt = NoExpiry
   /\ last.loc.aliasFree
   /\ last.loc.fresh
   /\ last.loc.peers = {}
   /\ last.loc.rivals = {})
  => /\ last.res.kind = "return"
     /\ last.res.error = ""
     /\ last.res.isNew
     /\ last.res.code = last.arg.customAlias
     /\ \E r \in store : /\ r.code = last.arg.customAlias
                         /\ r.customAlias = last.arg.customAlias

\* C12 (as claimed): a createShortUrl whose expiresAt is not after the
\* earliest reading of the clock is answered with a 400 error on every entry
\* path, and every stored record with an expiresAt has expiresAt > createdAt.
C12_ExpiresAtInFuture ==
  /\ (/\ last.op = "createShortUrl"
      /\ last.arg.expiresAt # NoExpiry
      /\ last.arg.expiresAt <= 0)
     => (last.res.kind = "throw" /\ last.res.status = 400)
  /\ \A r \in store : r.expiresAt # NoExpiry => r.expiresAt > r.createdAt

\* C13 (as claimed): every record in the store has a code of 3 to 50
\* characters, all of them in [A-Za-z0-9_-].
C13_CodeFormat ==
  \A r \in store :
    /\ Len(r.code) >= 3
    /\ Len(r.code) <= 50
    /\ \A i \in 1..Len(r.code) : Contains(CodeChars, CharAt(r.code, i))

\* C14: hitCount is never negative, and every step changes the hitCount of a
\* record that stays in the store by exactly the number of increments of
\* incrementHitCount(code) that the store applied in that step (one when
\* such an increment resolves without failure, none otherwise); so after n
\* such calls the count has grown by exactly n in every interleaving.
C14_HitCountExact ==
  /\ [](\A r \in store : r.hitCount >= 0)
  /\ [][\A r \in store : \A q \in store' :
          q.code = r.code =>
            q.hitCount = r.hitCount +
              Cardinality({t \in Tasks : /\ pc[t] = "increment"
                                         /\ pc'[t] # "increment"
                                         /\ arg[t].code = r.code
                                         /\ faultsLeft' = faultsLeft})]_vars

\* Two increments of one record have been applied and the second call is over.
C14_Witness ==
  /\ last.op = "incrementHitCount"
  /\ \E r \in store : r.code = last.arg.code /\ r.hitCount >= 2

\* The messages handed to eachMessage so far, in order.
HandedOver == handled \o (IF inflight = {} THEN <<>> ELSE <<The(inflight)>>)

\* Whether message m of HandedOver has been acknowledged to the group.
Acknowledged(m) == offsets[m.partition] > m.offset

\* C15 (as claimed): a message is acknowledged only after its counters were
\* applied; a message whose application failed is not acknowledged.
C15_AckOnlyAfterApplied ==
  \A k \in 1..Len(handled) :
    handled[k].outcome = "failed" => ~Acknowledged(handled[k])

\* The hourly bucket of an event, and the events with a real timestamp that
\* a producer may publish.
BucketOf(e) == [code |-> e.code, date |-> DateOf(e.timestamp), hour |-> HourOf(e.timestamp)]
StampedEvents == {e \in UNION {p.events : p \in Pools} : e.timestamp # NoStamp}
BucketKeys == {BucketOf(e) : e \in StampedEvents}

\* The count of a bucket in hits_by_hour (0 when the row is absent).
CountOf(key) ==
  IF \E r \in hitsByHour : r.key = key
  THEN (CHOOSE r \in hitsByHour : r.key = key).count
  ELSE 0

\* The valid events of a bucket that were delivered to the handler.
DeliveredTo(key) ==
  Len(SelectSeq(HandedOver,
                LAMBDA m : /\ m.outcome # "dropped"
                           /\ m.event.timestamp # InvalidDate
                           /\ BucketOf(m.event) = key))

\* C16 (as claimed): every valid event delivered to the consumer eventually
\* adds at least 1 to the count of its bucket in hits_by_hour, the store
\* failing only finitely often: again and again every bucket has counted all
\* the valid events delivered for it.
C16_NoDeliveredEventLost ==
  []<>(\A key \in BucketKeys : CountOf(key) >= DeliveredTo(key))

\* Where in bus the message handed over as m is.
HandedFrom(m) == PositionInBus(m.partition, m.offset + 1)

\* C17: every event handed to the consumer's handler is one whose publish
\* was acknowledged, and of two events of one code the one handed over
\* first is the one whose publish was acknowledged first: events of one
\* code are never swapped, whatever the order across codes.
C17_PerCodeOrder ==
  /\ \A k \in 1..Len(HandedOver) :
       HandedOver[k].event = parseHitEvent(bus[HandedFrom(HandedOver[k])])
  /\ \A j, k \in 1..Len(HandedOver) :
       (j < k /\ HandedOver[j].event.code = HandedOver[k].event.code)
       => HandedFrom(HandedOver[j]) < HandedFrom(HandedOver[k])

\* Two different events of one code were handled, and an event of another
\* code published after the first of them was handled before it.
C17_Witness ==
  /\ Len(handled) >= 3
  /\ handled[1].event.code # handled[2].event.code
  /\ handled[2].event.code = handled[3].event.code
  /\ handled[2].event # handled[3].event
  /\ bus[1] = handled[2].event

\* The timestamps of the events applied for a code.
AppliedStamps(code) ==
  {handled[k].event.timestamp :
     k \in {j \in 1..Len(handled) : /\ handled[j].outcome = "applied"
                                    /\ handled[j].event.code = code}}

\* C18 (as claimed): for every code with applied events, its access_times
\* row holds the least of their timestamps as first_accessed and the
\* greatest as last_accessed.
C18_AccessTimesMinMax ==
  \A code \in {e.code : e \in StampedEvents} :
    AppliedStamps(code) # {} =>
      \E r \in accessTimes :
        /\ r.code = code
        /\ \A t \in AppliedStamps(code) : r.first_accessed <= t /\ t <= r.last_accessed
        /\ r.first_accessed \in AppliedStamps(code)
        /\ r.last_accessed \in AppliedStamps(code)

\* An event with the code, date, ip and userAgent of e has been applied.
AppliedBefore(e) ==
  \E k \in 1..Len(handled) :
    /\ handled[k].outcome = "applied"
    /\ handled[k].event.code = e.code
    /\ DateOf(handled[k].event.timestamp) = DateOf(e.timestamp)
    /\ handled[k].event.ip = e.ip
    /\ handled[k].event.userAgent = e.userAgent

\* The visitors recorded in rows for a (code, date).
VisitorsOf(rows, code, date) == {r \in rows : r.code = code /\ r.date = date}

WithinTolerance(e, t) ==
  /\ e.code # ""
  /\ e.timestamp \notin {NoStamp, InvalidDate}
  /\ e.ip # ""
  /\ e.userAgent # ""
  /\ e.timestamp >= t - maxAge
  /\ e.timestamp <= t + maxFuture

\* C20 (as claimed): an event is applied only if code, timestamp, ip and
\* userAgent are present and the timestamp is within [now - 24h, now + 5min],
\* and an event that passes this test is never dropped by the consumer.
C20_AppliedIffWithinTolerance ==
  \A k \in 1..Len(handled) :
    /\ handled[k].outcome = "applied" => WithinTolerance(handled[k].event, handled[k].at)
    /\ WithinTolerance(handled[k].event, handled[k].at) => handled[k].outcome # "dropped"

\* The count of the counter row with a key (0 when the row is absent).
CountAt(rows, key) ==
  IF \E r \in rows : r.key = key THEN (CHOOSE r \in rows : r.key = key).count ELSE 0

\* From before to after, the counters of the keys in bumped went up by 1 and
\* no other row of the table changed.
Incremented(before, after, bumped) ==
  \A key \in {r.key : r \in before \cup after} \cup bumped :
    CountAt(after, key) = CountAt(before, key) + (IF key \in bumped THEN 1 ELSE 0)

\* C21 (as claimed): applying one valid event adds exactly 1 to its
\* hits_by_hour and hits_by_minute rows, to its referrers row iff a referrer
\* other than "direct" is present, to its geographic row iff a country is
\* present, and always to its devices row, "unknown" standing for each of
\* deviceType, browser and os that is absent; no other counter row changes.
C21_ApplyHitCounters ==
  [][(/\ inflight # {}
      /\ Len(handled') = Len(handled) + 1
      /\ handled'[Len(handled')].outcome = "applied")
     => LET e == The(inflight).event IN
        /\ Incremented(hitsByHour, hitsByHour', {BucketOf(e)})
        /\ Incremented(hitsByMinute, hitsByMinute',
                       {[code |-> e.code, date |-> DateOf(e.timestamp),
                         hour |-> HourOf(e.timestamp), minute |-> MinuteOf(e.timestamp)]})
        /\ Incremented(referrers, referrers',
                       IF e.referrer # "" /\ e.referrer # "direct"
                       THEN {[code |-> e.code, referrer |-> e.referrer]} ELSE {})
        /\ Incremented(geographic, geographic',
                       IF e.country # ""
                       THEN {[code |-> e.code, country |-> e.country]} ELSE {})
        /\ Incremented(devices, devices',
                       {[code |-> e.code, device_type |-> OrUnknown(e.deviceType),
                         browser |-> OrUnknown(e.browser), os |-> OrUnknown(e.os)]})]_vars

\* C22 (as claimed): a cache entry that findByCode would serve holds a
\* value read from the primary store at most REDIS_TTL ago.
C22_CacheTtlBounded ==
  \A e \in cache :
    now < e.expireAt => \A t \in FetchedAtOf(e.key) : now - t <= REDIS_TTL

\* C23 (as claimed): a redirect whose code was not in the cache and whose
\* read of the primary store failed is answered with a 5xx error, neither
\* 404 nor a redirect.
C23_StoreOutageIs5xx ==
  (/\ last.op = "redirect"
   /\ ~last.loc.cacheHeld
   /\ "storeRead" \in last.loc.faults)
  => last.res.kind = "throw" /\ last.res.status >= 500

\* C24 (as claimed): when the insert of a createShortUrl resolves while the
\* store holds an expired record with the same normalized URL, the call does
\* not fail: it returns that existing record.
C24_ExpiredDuplicateReturned ==
  [][\A t \in Tasks :
       (/\ pc[t] = "save"
        /\ pc'[t] # pc[t]
        /\ \E r \in store : {r.normalized} = loc[t].normalized /\ isExpired(r, now))
       => /\ last'.task = t
          /\ last'.res.kind = "return"
          /\ \E r \in store : /\ {r.normalized} = loc[t].normalized
                              /\ last'.res.code = r.code]_vars

\* The reputation check positively flags the URL.
Flagged(scan) == ~scan.failed /\ isUnsafe(scan.stats)

\* C25: with scanning enabled, a createShortUrl whose URL the reputation
\* check flags ends in a 400 error at the check, with the store and the cache
\* as they were; a URL that is not flagged, the check having failed or not,
\* goes on to the lookup, and a call whose check failed ends like a call for
\* a clean URL: it returns the code of the record stored for the URL.
C25_ScanBlocksOrFailsOpen ==
  /\ [](\A scan \in last.loc.scan :
          ~Flagged(scan) =>
             /\ last.res.kind = "return"
             /\ \E r \in store : r.code = last.res.code /\ r.normalized = LastNormalized)
  /\ [][\A t \in Tasks :
          (pc[t] = "checkUrlSafety" /\ pc'[t] # pc[t])
          => /\ store' = store
             /\ cache' = cache
             /\ \/ /\ pc'[t] = "idle"
                   /\ last'.task = t
                   /\ Flagged(The(last'.loc.scan))
                   /\ last'.res.kind = "throw"
                   /\ last'.res.status = 400
                \/ /\ pc'[t] = "findByNormalizedUrl"
                   /\ ~Flagged(The(loc'[t].scan))]_vars

\* A call whose reputation check failed created a record.
C25_Witness ==
  /\ last.op = "createShortUrl"
  /\ last.loc.scan = {ScanFailed}
  /\ last.res.isNew
  /\ \E r \in store : r.code = last.res.code

\* C26 (as claimed): what normalizeUrl returns is a fixed point of
\* normalizeUrl.
C26_NormalizeIdempotent ==
  last.op = "normalizeUrl" =>
    normalizeUrl(The(last.res.value)) = The(last.res.value)

\* URL u without its parameters called name.
RemoveParam(u, name) == [u EXCEPT !.query = SelectSeq(@, LAMBDA n : n # name)]

\* u and v differ in their tracking parameters at most.
SameButTracking(u, v) ==
  [u EXCEPT !.query = SelectSeq(@, LAMBDA n : n \notin trackingParams)]
    = [v EXCEPT !.query = SelectSeq(@, LAMBDA n : n \notin trackingParams)]

\* C27: for a URL u and every tracking parameter, normalizing u without that
\* parameter gives what normalizing u gives; the other parameters are in the
\* result in their original order; and when the pre-check of createShortUrl
\* resolves while the store holds a live record of a URL that differs from
\* the submitted one in tracking parameters only, the call returns the code
\* of that record.
C27_TrackingParamsIgnored ==
  /\ []((last.op = "normalizeUrl" /\ CanParse(The(last.arg.url))) =>
         LET u == The(last.arg.url)
             result == The(last.res.value)
         IN  /\ \A name \in trackingParams : normalizeUrl(RemoveParam(u, name)) = result
             /\ result.query = SelectSeq(u.query, LAMBDA n : n \notin trackingParams))
  /\ [][\A t \in Tasks :
          (pc[t] = "findByNormalizedUrl" /\ pc'[t] # pc[t])
          => \A r \in store :
               (SameButTracking(r.original, The(arg[t].url)) /\ ~isExpired(r, now))
               => /\ last'.task = t
                  /\ last'.res.kind = "return"
                  /\ last'.res.code = r.code]_vars

\* The URL with parameters a, gclid, b, source, gclid was shortened to the
\* code of the record created for the URL with utm_source, a, b.
C27_Witness ==
  /\ last.op = "createShortUrl"
  /\ last.arg.url = {UrlT2}
  /\ ~last.res.isNew
  /\ \E r \in store : r.original = UrlT1 /\ r.code = last.res.code

\* C28 (as claimed): when getUrlStats returns, total is the number of
\* records, expired the number of records with an expiresAt that is not
\* later than now, and active the difference.
C28_StatsCountExpired ==
  [][\A t \in Tasks :
       (pc[t] = "count" /\ pc'[t] = "idle" /\ last'.res.kind = "return")
       => LET stats == The(last'.res.value) IN
          /\ stats.total = Cardinality(store)
          /\ stats.expired =
               Cardinality({r \in store : r.expiresAt # NoExpiry /\ r.expiresAt <= now})
          /\ stats.active = stats.total - stats.expired]_vars

\* C29: a request to DELETE /urls/:code or POST /urls/batch whose key
\* header is missing or is not exactly the configured key is answered 401 in
\* a step that leaves the store and the cache as they were, and a request
\* that enters the handler carries the configured key.
C29_AdminRoutesNeedKey ==
  [][\A c \in Clients :
       pc[c] = "idle" =>
         /\ (pc'[c] # "idle" /\ arg'[c].via \in AdminRoutes) => arg'[c].key = adminApiKey
         /\ (/\ last' # last
             /\ last'.task = c
             /\ last'.arg.via \in AdminRoutes
             /\ last'.arg.key # adminApiKey)
            => /\ last'.res.kind = "throw"
               /\ last'.res.status = 401
               /\ store' = store
               /\ cache' = cache]_vars

\* A DELETE with a key that differs from the configured one in the case of
\* one letter was answered 401 and the record is still stored.
C29_Witness ==
  /\ last.op = "deleteUrl"
  /\ last.arg.via = "delete"
  /\ last.arg.key = WrongKey
  /\ last.res.status = 401
  /\ FindOneByCode(last.arg.code) # {}

\* The entries of the body of the last batch, and the items of its success
\* array that stand for a normalized URL.
LastBatch == The(last.arg.urls)
SuccessFor(n) ==
  {i \in 1..Len(last.res.success) : normalizedOf[last.res.success[i].originalUrl] = n}

\* C30 (as claimed): batchCreateUrls answers 400 and creates nothing for a
\* body without urls array, without entries or with more than 100 entries;
\* for any other body every entry is in success or in errors, an entry that
\* fails keeps no other entry out of success, and entries with the same
\* normalized URL yield one record and the same code for each of them.
C30_BatchPerEntryOutcome ==
  /\ [](last.op = "batchCreateUrls" /\ last.arg.key = adminApiKey
        => IF BatchRejection(last.arg.urls) # {}
           THEN last.res.kind = "throw" /\ last.res.status = 400
           ELSE /\ last.res.kind = "return"
                /\ Len(last.res.success) + Len(last.res.errors) = Len(LastBatch)
                /\ \A i \in 1..Len(LastBatch) :
                     LET n == normalizedOf[LastBatch[i].url]
                         alike == {j \in 1..Len(LastBatch) :
                                     normalizedOf[LastBatch[j].url] = n}
                     IN  LastBatch[i].customAlias = NoAlias
                         => /\ Cardinality(SuccessFor(n)) = Cardinality(alike)
                            /\ Cardinality(FindOneByNormalized(n)) = 1
                            /\ \A k \in SuccessFor(n) :
                                 last.res.success[k].shortCode
                                   = The(FindOneByNormalized(n)).code)
  /\ [][(/\ last' # last
         /\ last'.op = "batchCreateUrls"
         /\ last'.res.kind = "throw")
        => store' = store /\ cache' = cache]_vars

\* C31 (as claimed): the consumer leaves Running only for Draining, and
\* reaches Stopped only from Draining with no event in flight, the offsets
\* of the finished events committed.
C31_ShutdownDrains ==
  [][/\ (consumerState = "Running" /\ consumerState' # "Running")
        => consumerState' = "Draining"
     /\ (consumerState # "Stopped" /\ consumerState' = "Stopped")
        => consumerState = "Draining" /\ inflight = {}]_vars

\* C32 (as claimed): when the insert of a record with a generated code
\* finds the code taken by a record of another URL, no record of its own
\* normalized URL being stored, createShortUrl does not end there: it
\* allocates another code and goes on.
C32_CodeCollisionRetried ==
  [][\A t \in Tasks :
       (/\ pc[t] = "save"
        /\ arg[t].customAlias = NoAlias
        /\ pc'[t] # pc[t]
        /\ FindOneByNormalized(The(loc[t].normalized)) = {}
        /\ \E r \in store : r.code = loc[t].code)
       => /\ pc'[t] \notin {"idle", "settled"}
          /\ ~(last'.task = t /\ last'.res.error = "QueryFailedError")]_vars

\* C33 (as claimed): generateUniqueCode makes at most maxAttempts probes of
\* the store; what it returns is a candidate of the configured length that
\* no record has, or, after maxAttempts collisions, one token two characters
\* longer; and no record existing when it returns has the returned code.
C33_GeneratedCodeIsFree ==
  [][\A t \in Tasks :
       pc[t] = "generateUniqueCode"
       => /\ loc[t].attempt < maxAttempts
          /\ pc'[t] = "save"
             => /\ \/ Len(loc'[t].code) = defaultCodeLength
                   \/ /\ Len(loc'[t].code) = defaultCodeLength + 2
                      /\ loc[t].attempt = maxAttempts - 1
                /\ FindOneByCode(loc'[t].code) = {}]_vars

\* C34 (as claimed): a redirect answers with the status of the first of its
\* checks that fails, in the order code format (400), existence (404),
\* expiry, expiresAt being now or earlier (410), open-redirect guard (400),
\* and starts the hit-count increment and the publish of the hit event only
\* when the record in hand has passed the expiry check and the guard.
C34_ChecksInOrder ==
  /\ [](last.op = "redirect" =>
          IF ~ValidCodeFormat(last.arg.code)
          THEN last.res.status = 400
          ELSE IF last.loc.url = {}
          THEN last.res.status = 404
          ELSE IF /\ LastUrl.expiresAt # NoExpiry
                  /\ \E t \in last.loc.checkedAt : LastUrl.expiresAt <= t
          THEN last.res.status = 410
          ELSE IF ~validRedirectOf[LastUrl.original]
          THEN last.res.status = 400
          ELSE last.res.status \in {301, 302})
  /\ [][\A c \in Clients :
          (/\ op[c] = "redirect"
           /\ \/ pc[BgOf(c)] = "idle" /\ pc'[BgOf(c)] = "increment"
              \/ pc[c] = "dispatch" /\ pc'[c] = "getLocationFromIp")
          => /\ loc[c].url # {}
             /\ LET url == The(loc[c].url) IN
                /\ url.expiresAt = NoExpiry \/ url.expiresAt > now
                /\ validRedirectOf[url.original]]_vars

\* The retention of the topic (retention.ms), in days and in ticks.
RetentionDays == 7
RetentionTicks == RetentionDays * TicksPerDay

\* The messages of bus the consumer group has not consumed yet.
Unconsumed ==
  {i \in 1..Len(bus) :
     LET p == PartitionOf(bus[i].code)
     IN  Cardinality({j \in 1..i : PartitionOf(bus[j].code) = p}) > offsets[p]}

\* C35 (as claimed): while the retention has not elapsed, no acknowledged
\* event that the consumer group has not consumed yet is removed from the
\* topic, whatever events of the same code are published after it.
C35_UnconsumedEventsStay ==
  now < RetentionTicks => \A i \in Unconsumed : i \notin compacted

\* C36 (as claimed): when incrementHitCount(code) ends for a stored record,
\* none of its calls having failed and no other increment of the code being
\* under way, the cache holds a live entry for the code whose hitCount is
\* the hitCount of the record in the store.
C36_CacheSnapshotAfterIncrement ==
  [][\A t \in Tasks :
       (/\ pc[t] = "cacheUrl_inc"
        /\ pc'[t] # pc[t]
        /\ last'.task = t
        /\ last'.loc.faults = {}
        /\ FindOneByCode(arg[t].code) # {}
        /\ \A s \in Tasks \ {t} : op[s] = "incrementHitCount" => arg[s].code # arg[t].code)
       => \E e \in cache' :
            /\ e.key = arg[t].code
            /\ now < e.expireAt
            /\ e.value.hitCount = The(FindOneByCode(arg[t].code)).hitCount]_vars

\* The distinct visitor hashes in the unique-visitor sets of a code whose
\* date is in a range.
HashesOf(rows, code, range) ==
  {r.visitor_hash :
     r \in {x \in rows : /\ x.code = code
                         /\ \A g \in range : x.date >= g.startDate /\ x.date <= g.endDate}}

\* C37 (as claimed): the uniqueVisitors figure getAnalytics returns for a
\* code is the number of distinct visitor hashes recorded for the code in
\* the queried range and is at most totalHits, and applying an event whose
\* code, date, ip and userAgent were applied before does not increase the
\* figure.
C37_UniqueVisitorsFigure ==
  [][/\ (opsLeft' # opsLeft /\ pc' = pc /\ last'.op = "getAnalytics")
        => LET stats == The(last'.res.value)
           IN  /\ stats.uniqueVisitors
                    = Cardinality(HashesOf(uniqueVisitors, last'.arg.code, last'.arg.event))
               /\ stats.uniqueVisitors <= stats.totalHits
     /\ (/\ inflight # {}
         /\ inflight' = {}
         /\ AppliedBefore(The(inflight).event))
        => getTotalStats(hitsByHour', The(inflight).event.code, NoRange).uniqueVisitors
             = getTotalStats(hitsByHour, The(inflight).event.code, NoRange).uniqueVisitors]_vars

\* C38 (as claimed): whenever the primary store holds a record for a code
\* and the cache holds a live entry for the same code, the entry's original
\* is the record's original.
C38_CacheAgreesOnOriginal ==
  \A r \in store :
    \A e \in cache :
      (e.key = r.code /\ now < e.expireAt) => e.value.original = r.original

\* C39 (as claimed): a preview that findByCode serves from the cache while
\* the primary store holds the record answers with the body that the record
\* read from the primary store gives at that moment, field by field.
C39_PreviewSameFromCache ==
  [][\A t \in Tasks :
       (/\ op[t] = "preview"
        /\ pc[t] = "getCachedUrl"
        /\ pc'[t] = "idle"
        /\ last'.res.kind = "return"
        /\ FindOneByCode(arg[t].code) # {})
       => last'.res.value = {PreviewOf(The(FindOneByCode(arg[t].code)), now)}]_vars

\* What identifies a record and where it leads, and the codes of a set of
\* records.
Identity(r) ==
  [code |-> r.code, original |-> r.original, normalized |-> r.normalized,
   customAlias |-> r.customAlias, expiresAt |-> r.expiresAt]
CodesOf(rows) == {r.code : r \in rows}

\* C40: a record appears in the primary store only by the save of a
\* createShortUrl call and disappears only by the delete of a deleteUrl call;
\* no step changes the code, original, normalized, customAlias or expiresAt
\* of a record; and no step of findByCode, the redirect, the preview or
\* incrementHitCount, the increment for a code without a record included,
\* adds, removes or changes any of these.
C40_LookupsAndHitsKeepRecords ==
  [][/\ \A r \in store' :
          r.code \notin CodesOf(store)
          => \E t \in Tasks : /\ op[t] = "createShortUrl"
                               /\ pc[t] = "save" /\ pc'[t] # "save"
                               /\ loc[t].code = r.code
     /\ \A r \in store :
          r.code \notin CodesOf(store')
          => \E t \in Tasks : /\ op[t] = "deleteUrl"
                               /\ pc[t] = "delete" /\ pc'[t] # "delete"
                               /\ arg[t].code = r.code
     /\ \A r \in store : \A q \in store' : q.code = r.code => Identity(q) = Identity(r)
     /\ \A t \in Tasks :
          (/\ op[t] \in {"findByCode", "redirect", "preview", "incrementHitCount"}
           /\ pc'[t] # pc[t])
          => {Identity(r) : r \in store'} = {Identity(r) : r \in store}]_vars

\* incrementHitCount has ended for a code that has no record, having
\* issued its increment and read the primary store.
C40_Witness ==
  /\ last.op = "incrementHitCount"
  /\ last.loc.readStore
  /\ ~last.loc.storeHeld
  /\ last.loc.faults = {}
  /\ FindOneByCode(last.arg.code) = {}

====
